---- MODULE Spec2Model ----
(***************************************************************************)
(* Model of the stasium daemon runtime (modoterra/stasium):                *)
(*   - pkg/daemon/supervisor.go : the process supervisor                   *)
(*   - pkg/daemon/daemon.go     : the manifest mutation handlers           *)
(*   - pkg/manifest             : Validate, Load, Save                     *)
(*   - pkg/daemon poll loop     : tick, computeDelta, computeScore         *)
(*   - pkg/transport/uds        : the server, its messages                 *)
(***************************************************************************)
EXTENDS Integers, Sequences, FiniteSets, TLC

(***************************************************************************)
(* Bounds of the model.                                                    *)
(***************************************************************************)
\* SupervisedProcess records ever created by Register
MaxRecs == 2
\* children ever spawned (exec.Cmd values) in the supervisor specification
MaxCmds == 2
\* the same two bounds in the manifest specification
MaxManRecs == 2
MaxManCmds == 2
\* children ever spawned in the backoff scenario
MaxSeqCmds == 9
\* largest failure count fed to backoff in the pure-function specification
MaxFailures == 100

Names == {"a", "b"}
\* names the supervisor specification registers directly
SupNames == {"a"}
\* callers of the supervisor's public operations; "d" is the daemon's
\* UpdateManifest handler, which runs under d.mu
UserThreads == {"t1"}
Threads == UserThreads \cup {"d"}

RestartAlways == "always"
RestartOnFailure == "on-failure"
RestartNever == "never"
Policies == {RestartAlways, RestartOnFailure, RestartNever}

StatusRunning == "running"
StatusStopped == "stopped"
StatusFailed == "failed"
StatusRestarting == "restarting"

\* Command strings: "" has no fields (strings.Fields is empty)
Commands == {"run"}

VARIABLES
  processes,   \* Supervisor.processes: name -> record id (0: no entry)
  heap,        \* the SupervisedProcess values ever allocated
  cmds,        \* the exec.Cmd values ever started, each with its waitAndRestart goroutine
  ctxDone,     \* Supervisor.ctx is cancelled
  threads,     \* callers inside Start/Stop/Restart/StopAll/Unregister
  manifest,    \* Daemon.manifest (Nil when none is loaded)
  file,        \* content of the manifest file on disk
  resp,        \* the last response of handleLoadManifest / handleUpdateManifest
  bo,          \* pure-function harness: the inputs and the function's result
  items,       \* Daemon.items: the item table, id -> core.Item
  poll,        \* the poll loop's goroutine, with the record of its last tick
  server,      \* uds.Server: clients, the accept loop, a Broadcast under way
  conns,       \* the connections of the socket, each with its handleConn
  reqCounter,  \* uds.reqCounter of the process
  client,      \* uds.Client of a connecting process, with its Request calls
  logs,        \* the log buffers of a supervised process and their readers
  dm,          \* Daemon.mu, the goroutines of its handlers, the exec provider
  app          \* the terminal client's App model

vars == <<processes, heap, cmds, ctxDone, threads, manifest, file, resp, bo,
          items, poll, server, conns, reqCounter, client, logs, dm, app>>
supVars == <<processes, heap, cmds, ctxDone, threads>>
manVars == <<manifest, file, resp>>
netVars == <<items, poll, server, conns, reqCounter>>
extVars == <<client, logs, dm, app>>

(***************************************************************************)
(* 64-bit two's complement arithmetic (Go int and time.Duration).  A value *)
(* is the tuple of its 8 bytes, least significant first.                   *)
(***************************************************************************)
IntBits == 64
ByteBits == 8
ByteBase == 256
NumBytes == IntBits \div ByteBits

RECURSIVE Pow2(_)
Pow2(k) == IF k = 0 THEN 1 ELSE 2 * Pow2(k - 1)

Byte(v, i) == IF i < 1 \/ i > NumBytes THEN 0 ELSE v[i]

RECURSIVE BytesFrom(_, _)
BytesFrom(n, i) ==
  IF i > NumBytes THEN <<>>
  ELSE <<n % ByteBase>> \o BytesFrom(n \div ByteBase, i + 1)

\* the int64 of a natural number below 2^31
FromNat(n) == BytesFrom(n, 1)

RECURSIVE ShlFrom(_, _, _, _)
ShlFrom(v, q, r, i) ==
  IF i > NumBytes THEN <<>>
  ELSE <<((Byte(v, i - q) * Pow2(r)) % ByteBase)
          + ((Byte(v, i - q - 1) * Pow2(r)) \div ByteBase)>>
       \o ShlFrom(v, q, r, i + 1)

\* Go's x << k on a 64-bit integer: bits shifted out are lost, k >= 64 gives 0
Shl(v, k) == ShlFrom(v, k \div ByteBits, k % ByteBits, 1)

\* the sum of the byte products that land on byte k
RECURSIVE Conv(_, _, _, _)
Conv(a, b, k, i) ==
  IF i > k THEN 0 ELSE a[i] * b[k + 1 - i] + Conv(a, b, k, i + 1)

RECURSIVE MulFrom(_, _, _, _)
MulFrom(a, b, k, carry) ==
  IF k > NumBytes THEN <<>>
  ELSE LET s == Conv(a, b, k, 1) + carry
       IN <<s % ByteBase>> \o MulFrom(a, b, k + 1, s \div ByteBase)

\* wrapping multiplication (the bytes above the 8th are dropped)
Mul64(a, b) == MulFrom(a, b, 1, 0)

IsNeg(a) == a[NumBytes] >= ByteBase \div 2

RECURSIVE UGtFrom(_, _, _)
UGtFrom(a, b, i) ==
  IF i < 1 THEN FALSE
  ELSE IF a[i] # b[i] THEN a[i] > b[i]
  ELSE UGtFrom(a, b, i - 1)

\* signed a > b
Gt64(a, b) ==
  IF IsNeg(a) # IsNeg(b) THEN IsNeg(b) ELSE UGtFrom(a, b, NumBytes)

\* time.Second, in nanoseconds
NanosPerSecond == 1000000000
Second == FromNat(NanosPerSecond)
BackoffCapSeconds == 30
Seconds(k) == Mul64(FromNat(k), Second)

\* uint(n) as a shift count: a negative n converts to a count >= 64
ShiftCount(n) == IF n < 0 \/ n >= IntBits THEN IntBits ELSE n

backoffDoubling(failures) ==
  Mul64(Shl(FromNat(1), ShiftCount(failures - 1)), Second)

\* mutant: the exponent is failures, not failures-1
backoffOffByOne(failures) ==
  LET d == Mul64(Shl(FromNat(1), ShiftCount(failures)), Second)
  IN IF Gt64(d, Seconds(BackoffCapSeconds)) THEN Seconds(BackoffCapSeconds) ELSE d

backoff(failures) ==
  LET d == backoffDoubling(failures)
  IN IF Gt64(d, Seconds(BackoffCapSeconds)) THEN Seconds(BackoffCapSeconds) ELSE d

\* a duration read in whole seconds when it is one of 0..30 s, else -1
\* (negative or not a whole number of seconds in that range)
WholeSeconds(d) ==
  IF \E k \in 0 .. BackoffCapSeconds : Seconds(k) = d
  THEN CHOOSE k \in 0 .. BackoffCapSeconds : Seconds(k) = d
  ELSE -1

(***************************************************************************)
(* The supervisor (pkg/daemon/supervisor.go).                              *)
(***************************************************************************)
Nil == "nil"

\* Register's default for an unspecified policy
DefaultRestart(restart) == IF restart = "" THEN RestartOnFailure ELSE restart

\* the SupervisedProcess that Register allocates.  stderr holds the lines the
\* supervisor itself writes to the process's stderr ring; registered keeps the
\* policy Register stored (Restart is overwritten by stopProcess).  stopped is
\* history: a Stop or StopAll on the process has returned and neither Start
\* nor Restart has been called on it since.
NewProcess(name, command, dir, env, restart) ==
  [Name |-> name, Command |-> command, Dir |-> dir, Env |-> env,
   Restart |-> DefaultRestart(restart), registered |-> DefaultRestart(restart),
   status |-> StatusStopped, pid |-> 0, cmd |-> 0, failures |-> 0,
   stderr |-> <<>>, stopped |-> FALSE]

\* an exec.Cmd started by spawn, with the waitAndRestart goroutine spawn starts
\* for it: hpc is the goroutine's position, failures and delay are its locals
\* (0 while not set and after its return).  stop: "" or how far a stopProcess
\* on this child has come.  ctxKill: os/exec has killed the child because the
\* context of its exec.CommandContext is done.
NewCmd(r) ==
  [rec |-> r, alive |-> TRUE, stop |-> "", hpc |-> "wait", failures |-> 0,
   delay |-> 0, ctxKill |-> FALSE]

Op(o, n) ==
  [op |-> o, name |-> n, rec |-> 0, command |-> "", dir |-> <<>>, env |-> {},
   restart |-> ""]
OpRec(o, r) == [Op(o, "") EXCEPT !.rec = r]
RegisterOp(n, command, dir, env, restart) ==
  [Op("register", n) EXCEPT !.command = command, !.dir = dir, !.env = env,
                            !.restart = restart]

IdleThread == [call |-> "", todo |-> <<>>, pc |-> "idle", rec |-> 0, cmd |-> 0]
Busy(t) == threads[t].pc # "idle" \/ threads[t].todo # <<>>

\* StopAll holds s.mu.RLock for its whole loop: writers of the map wait
RLockHeld == \E t \in Threads : threads[t].call = "StopAll" /\ Busy(t)

\* the caller's state after one operation returned ret: the call goes on with
\* rest, or is over
Returned(t, call, rest, ret) ==
  [call |-> IF rest = <<>> THEN "" ELSE call, todo |-> rest, pc |-> "idle",
   rec |-> 0, cmd |-> 0]

\* s.processes[name] = &SupervisedProcess{...}: always a fresh record
RegisterEffect(name, command, dir, env, restart) ==
  /\ heap' = Append(heap, NewProcess(name, command, dir, env, restart))
  /\ processes' = [processes EXCEPT ![name] = Len(heap) + 1]

Register(name, command, dir, env, restart) ==
  /\ Len(heap) < MaxRecs
  /\ ~RLockHeld
  /\ RegisterEffect(name, command, dir, env, restart)
  /\ UNCHANGED <<cmds, ctxDone, threads, manVars, bo, netVars, extVars>>

\* spawn can succeed only if the command has fields and the supervisor's
\* context is not yet cancelled (exec.Cmd.Start returns the context's error);
\* cmd.Start may still fail (no such binary, no more processes)
SpawnMaySucceed(r) ==
  /\ heap[r].Command # ""
  /\ ~ctxDone

\* spawn's success path: lines 271-291
SpawnEffect(r) ==
  /\ cmds' = Append(cmds, NewCmd(r))
  /\ heap' = [heap EXCEPT ![r].cmd = Len(cmds) + 1,
                          ![r].pid = Len(cmds) + 1,
                          ![r].status = StatusRunning]

\* spawn's error paths: the error is returned, nothing else happens
SpawnFailEffect(r) == UNCHANGED <<cmds, heap>>

\* startProcess up to the call of spawn
BeginStart(t, call, n, rest) ==
  LET r == processes[n]
  IN /\ UNCHANGED <<processes, cmds, ctxDone>>
     /\ heap' = IF r = 0 THEN heap ELSE [heap EXCEPT ![r].stopped = FALSE]
     /\ threads' = [threads EXCEPT ![t] =
          IF r = 0 THEN Returned(t, call, rest, "unknown process")
          ELSE IF heap[r].status = StatusRunning THEN Returned(t, call, rest, Nil)
          ELSE [call |-> call, todo |-> rest, pc |-> "spawn", rec |-> r,
                cmd |-> 0]]

\* stopProcess sets p.Restart under the lock
StopPolicy(r) == RestartNever

\* the history of a process when a stop of the call returns (a Restart goes
\* on to start it, other callers are not the stop operations)
StopReturned(call, was) ==
  IF call \in {"Stop", "StopAll"} THEN TRUE
  ELSE IF call = "Restart" THEN FALSE ELSE was

\* stopProcess up to the wait for the child: lines 354-372
BeginStopProcess(t, call, r, rest) ==
  IF heap[r].status # StatusRunning \/ heap[r].cmd = 0
  THEN /\ threads' = [threads EXCEPT ![t] = Returned(t, call, rest, Nil)]
       /\ heap' = [heap EXCEPT ![r].stopped = StopReturned(call, @)]
       /\ UNCHANGED <<processes, cmds, ctxDone>>
  ELSE LET c == heap[r].cmd
       IN /\ heap' = [heap EXCEPT ![r].Restart = StopPolicy(r),
                                  ![r].stopped = IF call = "Restart" THEN FALSE ELSE @]
          /\ cmds' = [cmds EXCEPT ![c].stop = "waiting"]
          /\ threads' = [threads EXCEPT ![t] =
               [call |-> call, todo |-> rest, pc |-> "wait", rec |-> r,
                cmd |-> c]]
          /\ UNCHANGED <<processes, ctxDone>>

BeginStop(t, call, n, rest) ==
  IF processes[n] = 0
  THEN /\ threads' = [threads EXCEPT ![t] = Returned(t, call, rest, "unknown process")]
       /\ UNCHANGED <<processes, heap, cmds, ctxDone>>
  ELSE BeginStopProcess(t, call, processes[n], rest)

\* Unregister's removal of the entry
BeginDelete(t, call, n, rest) ==
  /\ ~RLockHeld
  /\ processes' = [processes EXCEPT ![n] = 0]
  /\ threads' = [threads EXCEPT ![t] = Returned(t, call, rest, Nil)]
  /\ UNCHANGED <<heap, cmds, ctxDone>>

\* Unregister: stops the process, then removes the entry
BeginUnregister(t, call, n, rest) ==
  BeginStop(t, call, n, <<Op("delete", n)>> \o rest)

BeginRegister(t, call, o, rest) ==
  /\ Len(heap) < MaxManRecs
  /\ ~RLockHeld
  /\ RegisterEffect(o.name, o.command, o.dir, o.env, o.restart)
  /\ threads' = [threads EXCEPT ![t] = Returned(t, call, rest, Nil)]
  /\ UNCHANGED <<cmds, ctxDone>>

\* the first step of the next supervisor operation of a caller
Begin(t, call, o, rest) ==
  CASE o.op = "start" -> BeginStart(t, call, o.name, rest)
    [] o.op = "stop" -> BeginStop(t, call, o.name, rest)
    [] o.op = "stopProcess" -> BeginStopProcess(t, call, o.rec, rest)
    [] o.op = "delete" -> BeginDelete(t, call, o.name, rest)
    [] o.op = "unregister" -> BeginUnregister(t, call, o.name, rest)
    [] o.op = "register" -> BeginRegister(t, call, o, rest)

Start(t, n) ==
  /\ ~Busy(t)
  /\ Begin(t, "Start", Op("start", n), <<>>)
  /\ UNCHANGED <<manVars, bo, netVars, extVars>>

Stop(t, n) ==
  /\ ~Busy(t)
  /\ Begin(t, "Stop", Op("stop", n), <<>>)
  /\ UNCHANGED <<manVars, bo, netVars, extVars>>

\* Restart: Stop, a settling sleep, Start
Restart(t, n) ==
  /\ ~Busy(t)
  /\ Begin(t, "Restart", Op("stop", n), <<Op("start", n)>>)
  /\ UNCHANGED <<manVars, bo, netVars, extVars>>

\* the next operation of a call made of several (Restart, StopAll, the
\* manifest handler's live reload)
Continue(t) ==
  /\ threads[t].pc = "idle"
  /\ threads[t].todo # <<>>
  /\ Begin(t, threads[t].call, Head(threads[t].todo), Tail(threads[t].todo))
  /\ UNCHANGED <<manVars, bo, netVars, extVars>>

\* spawn called from startProcess
StartSpawn(t, ok, max) ==
  LET r == threads[t].rec
  IN /\ threads[t].pc = "spawn"
     /\ IF ok
        THEN /\ SpawnMaySucceed(r)
             /\ Len(cmds) < max
             /\ SpawnEffect(r)
             /\ threads' = [threads EXCEPT ![t] =
                  Returned(t, threads[t].call, threads[t].todo, Nil)]
        ELSE /\ SpawnFailEffect(r)
             /\ threads' = [threads EXCEPT ![t] =
                  Returned(t, threads[t].call, threads[t].todo, "spawn error")]
     /\ UNCHANGED <<processes, ctxDone, manVars, bo, netVars, extVars>>

\* stopProcess: the 10 s grace period ends before the child has exited
StopKill(t) ==
  LET c == threads[t].cmd
  IN /\ threads[t].pc = "wait"
     /\ cmds[c].alive
     /\ threads' = [threads EXCEPT ![t].pc = "killed"]
     /\ UNCHANGED <<processes, heap, cmds, ctxDone, manVars, bo, netVars, extVars>>

\* stopProcess after done is closed: lines 381-390
StopFinish(t) ==
  LET c == threads[t].cmd
      r == threads[t].rec
  IN /\ threads[t].pc \in {"wait", "killed"}
     /\ ~cmds[c].alive
     /\ heap' = [heap EXCEPT ![r].status = StatusStopped, ![r].pid = 0,
                             ![r].stopped = StopReturned(threads[t].call, @)]
     /\ cmds' = [cmds EXCEPT ![c].stop = "returned"]
     /\ threads' = [threads EXCEPT ![t] =
          Returned(t, threads[t].call, threads[t].todo, Nil)]
     /\ UNCHANGED <<processes, ctxDone, manVars, bo, netVars, extVars>>

\* the registered records, in one of the orders a map iteration may give
RECURSIVE Orders(_)
Orders(S) ==
  IF S = {} THEN {<<>>}
  ELSE UNION {{<<x>> \o rest : rest \in Orders(S \ {x})} : x \in S}

RegisteredRecs == {processes[n] : n \in {m \in Names : processes[m] # 0}}

\* StopAll: cancel the context (exec.CommandContext then kills every child
\* that is still alive), take the read lock, stopProcess each entry
StopAll(t) ==
  /\ ~Busy(t)
  /\ ~ctxDone
  /\ ctxDone' = TRUE
  /\ cmds' = cmds
  /\ \E order \in Orders(RegisteredRecs) :
       threads' = [threads EXCEPT ![t] =
         [call |-> "StopAll", pc |-> "idle", rec |-> 0, cmd |-> 0,
          todo |-> [i \in 1 .. Len(order) |-> OpRec("stopProcess", order[i])]]]
  /\ UNCHANGED <<processes, heap, manVars, bo, netVars, extVars>>

\* stopProcess has sent SIGTERM to the child's process group
TermSent(c) == cmds[c].stop # ""

\* the child process ends: by itself, or by a signal
ChildExit(c) ==
  /\ cmds[c].alive
  /\ cmds' = [cmds EXCEPT ![c].alive = FALSE]
  /\ UNCHANGED <<processes, heap, ctxDone, threads, manVars, bo, netVars, extVars>>

\* exec.CommandContext(ctx, ...) of spawn: once the supervisor's context is
\* done, os/exec kills the child (Process.Kill, a SIGKILL) while it is alive
CtxKill(c) ==
  /\ ctxDone
  /\ cmds[c].alive
  /\ cmds' = [cmds EXCEPT ![c].alive = FALSE, ![c].ctxKill = TRUE]
  /\ UNCHANGED <<processes, heap, ctxDone, threads, manVars, bo, netVars, extVars>>

\* mutant: on-failure restarts on a clean exit
ShouldRestartInverted(restart, exitCode) ==
  CASE restart = RestartAlways -> TRUE
    [] restart = RestartOnFailure -> exitCode = 0
    [] OTHER -> FALSE

\* the restart decision: lines 325-333
ShouldRestart(restart, exitCode) ==
  CASE restart = RestartAlways -> TRUE
    [] restart = RestartOnFailure -> exitCode # 0
    [] OTHER -> FALSE

\* the exit codes waitAndRestart may read from cmd.ProcessState: the child's
\* own code (0 or 1 here), or -1 when a signal ended it (stopProcess's SIGTERM
\* or SIGKILL, the kill of a cancelled context).  -1 is also what a nil
\* ProcessState reads as: when stopProcess waits on the same exec.Cmd the two
\* Wait calls race and the loser stores nil.
ObservedCodes(c) ==
  {0, 1} \cup (IF TermSent(c) \/ ctxDone THEN {-1} ELSE {})

\* waitAndRestart from the return of cmd.Wait to the restart decision:
\* lines 297-333
HandlerExit(c, exitCode) ==
  LET r == cmds[c].rec
      failures == heap[r].failures + 1
      restart == heap[r].Restart
  IN /\ cmds[c].hpc = "wait"
     /\ ~cmds[c].alive
     /\ exitCode \in ObservedCodes(c)
     /\ IF ctxDone
        THEN /\ heap' = [heap EXCEPT ![r].pid = 0, ![r].status = StatusStopped]
             /\ cmds' = [cmds EXCEPT ![c].hpc = "done"]
        ELSE /\ heap' = [heap EXCEPT
                  ![r].pid = 0,
                  ![r].status = IF exitCode = 0 THEN StatusStopped ELSE StatusFailed,
                  ![r].failures = failures]
             /\ cmds' = [cmds EXCEPT
                  ![c].failures = IF ShouldRestart(restart, exitCode) THEN failures ELSE 0,
                  ![c].hpc = IF ShouldRestart(restart, exitCode) THEN "exited" ELSE "done"]
     /\ UNCHANGED <<processes, ctxDone, threads, manVars, bo, netVars, extVars>>

\* waitAndRestart: lines 335-341
HandlerRestarting(c) ==
  LET r == cmds[c].rec
  IN /\ cmds[c].hpc = "exited"
     /\ heap' = [heap EXCEPT ![r].status = StatusRestarting]
     /\ cmds' = [cmds EXCEPT ![c].hpc = "backoff",
                             ![c].delay = WholeSeconds(backoff(cmds[c].failures))]
     /\ UNCHANGED <<processes, ctxDone, threads, manVars, bo, netVars, extVars>>

\* the goroutine's state after its return
HandlerDone(h) == [h EXCEPT !.hpc = "done", !.failures = 0, !.delay = 0]

\* waitAndRestart: the timer fires and spawn is called: lines 344-347
HandlerRespawn(c, ok, max) ==
  LET r == cmds[c].rec
  IN /\ cmds[c].hpc = "backoff"
     /\ IF ok
        THEN /\ SpawnMaySucceed(r)
             /\ Len(cmds) < max
             /\ cmds' = [Append(cmds, NewCmd(r)) EXCEPT ![c] = HandlerDone(cmds[c])]
             /\ heap' = [heap EXCEPT ![r].cmd = Len(cmds) + 1,
                                     ![r].pid = Len(cmds) + 1,
                                     ![r].status = StatusRunning]
        ELSE /\ heap' = heap
             /\ cmds' = [cmds EXCEPT ![c] = HandlerDone(cmds[c])]
     /\ UNCHANGED <<processes, ctxDone, threads, manVars, bo, netVars, extVars>>

\* waitAndRestart: the context is done during the backoff: lines 348-349
HandlerCancelled(c) ==
  /\ cmds[c].hpc = "backoff"
  /\ ctxDone
  /\ cmds' = [cmds EXCEPT ![c] = HandlerDone(cmds[c])]
  /\ UNCHANGED <<processes, heap, ctxDone, threads, manVars, bo, netVars, extVars>>

(***************************************************************************)
(* The supervisor specification.                                           *)
(***************************************************************************)
Init ==
  /\ processes = [n \in Names |-> 0]
  /\ heap = <<>>
  /\ cmds = <<>>
  /\ ctxDone = FALSE
  /\ threads = [t \in Threads |-> IdleThread]
  /\ manifest = Nil
  /\ file = Nil
  /\ resp = Nil
  /\ bo = Nil
  /\ items = Nil
  /\ poll = Nil
  /\ server = Nil
  /\ conns = Nil
  /\ reqCounter = 0
  /\ client = Nil /\ dm = Nil /\ app = Nil
  /\ logs = Nil

Next ==
  \/ \E n \in SupNames, command \in Commands, restart \in Policies \cup {""} :
       Register(n, command, <<"/d1">>, {}, restart)
  \/ \E t \in UserThreads, n \in SupNames : Start(t, n)
  \/ \E t \in UserThreads, n \in SupNames : Stop(t, n)
  \/ \E t \in UserThreads, n \in SupNames : Restart(t, n)
  \/ \E t \in UserThreads : StopAll(t)
  \/ \E t \in UserThreads : Continue(t)
  \/ \E t \in UserThreads, ok \in BOOLEAN : StartSpawn(t, ok, MaxCmds)
  \/ \E t \in UserThreads : StopKill(t)
  \/ \E t \in UserThreads : StopFinish(t)
  \/ \E c \in DOMAIN cmds : ChildExit(c)
  \/ \E c \in DOMAIN cmds : CtxKill(c)
  \/ \E c \in DOMAIN cmds, code \in {-1, 0, 1} : HandlerExit(c, code)
  \/ \E c \in DOMAIN cmds : HandlerRestarting(c)
  \/ \E c \in DOMAIN cmds, ok \in BOOLEAN : HandlerRespawn(c, ok, MaxCmds)
  \/ \E c \in DOMAIN cmds : HandlerCancelled(c)

Spec == Init /\ [][Next]_vars

(***************************************************************************)
(* Claims about the supervisor.                                            *)
(***************************************************************************)
\* the step in which waitAndRestart of child c handles the child's exit
ExitHandled(c) == cmds[c].hpc = "wait" /\ cmds'[c].hpc # "wait"

C2_AlwaysRespawns ==
  [][\A c \in DOMAIN cmds :
       (/\ ExitHandled(c)
        /\ ~ctxDone
        /\ cmds[c].stop = ""
        /\ heap[cmds[c].rec].registered = "always")
       => cmds'[c].hpc = "exited"]_vars

\* the step that completes a stop of child c: stopProcess has returned and the
\* child's waitAndRestart has finished, whichever came last
StopCompleted(c) ==
  /\ cmds'[c].stop = "returned" /\ cmds'[c].hpc = "done"
  /\ ~(cmds[c].stop = "returned" /\ cmds[c].hpc = "done")

\* C3 (as claimed): once stop on a running process has returned and the exit
\* handler of the stopped child has finished, in either order, the status is
\* stopped with pid 0 (no other child of the process was started meanwhile)
C3_StopLeavesStopped ==
  [][\A c \in DOMAIN cmds :
       (StopCompleted(c) /\ heap[cmds[c].rec].cmd = c)
       => /\ heap'[cmds[c].rec].status = StatusStopped
          /\ heap'[cmds[c].rec].pid = 0]_vars

\* C4 (as claimed): the never that stop marks lasts for the stopped lifecycle
\* only: a child started after a completed stop of the same process (stop then
\* start, or restart) is respawned on exit according to the registered policy
C4_PolicyRestoredAfterStop ==
  [][\A c \in DOMAIN cmds :
       (/\ ExitHandled(c)
        /\ ~ctxDone
        /\ cmds[c].stop = ""
        /\ \E c0 \in 1 .. (c - 1) :
             cmds[c0].rec = cmds[c].rec /\ cmds[c0].stop = "returned")
       => LET r == cmds[c].rec
              clean == heap'[r].status = StatusStopped
          IN (cmds'[c].hpc = "exited") <=>
               \/ heap[r].registered = "always"
               \/ (heap[r].registered = "on-failure" /\ ~clean)]_vars

\* C5 (as claimed): register on a name whose process is running keeps the
\* running child under the name: status, pid and child are unchanged
C5_RegisterKeepsRunning ==
  [][\A n \in Names :
       (/\ processes[n] # 0
        /\ heap[processes[n]].status = StatusRunning
        /\ Len(heap') > Len(heap)
        /\ processes'[n] = Len(heap'))
       => /\ heap'[processes'[n]].status = StatusRunning
          /\ heap'[processes'[n]].pid = heap[processes[n]].pid
          /\ heap'[processes'[n]].cmd = heap[processes[n]].cmd]_vars

\* a step in which spawn returns an error: a Start's spawn, or the respawn of
\* waitAndRestart whose timer fired (with the context done, that select may
\* also have taken the cancellation branch)
SpawnFailed(r) ==
  /\ Len(cmds') = Len(cmds)
  /\ \/ \E t \in Threads :
          threads[t].pc = "spawn" /\ threads[t].rec = r /\ threads'[t].pc = "idle"
     \/ \E c \in DOMAIN cmds :
          /\ cmds[c].rec = r /\ ~ctxDone
          /\ cmds[c].hpc = "backoff" /\ cmds'[c].hpc = "done"

\* C6 (as claimed): a spawn failure moves the process to failed and appends
\* the error to the process's stderr lines
C6_SpawnFailureFails ==
  [][\A r \in DOMAIN heap :
       SpawnFailed(r) =>
         /\ heap'[r].status = StatusFailed
         /\ Len(heap'[r].stderr) = Len(heap[r].stderr) + 1]_vars

(***************************************************************************)
(* The backoff scenario: one registered process, started by Start, whose   *)
(* children exit one after the other and are respawned by waitAndRestart.  *)
(***************************************************************************)
SeqInit ==
  /\ \E restart \in Policies :
       heap = <<NewProcess("a", "run", <<"/d1">>, {}, restart)>>
  /\ processes = [n \in Names |-> IF n = "a" THEN 1 ELSE 0]
  /\ cmds = <<>>
  /\ ctxDone = FALSE
  /\ threads = [t \in Threads |-> IdleThread]
  /\ manifest = Nil
  /\ file = Nil
  /\ resp = Nil
  /\ bo = Nil
  /\ items = Nil
  /\ poll = Nil
  /\ server = Nil
  /\ conns = Nil
  /\ reqCounter = 0
  /\ client = Nil /\ dm = Nil /\ app = Nil
  /\ logs = Nil

SeqNext ==
  \* the client starts the process once (again if the first spawn failed)
  \/ cmds = <<>> /\ Start("t1", "a")
  \/ \E ok \in BOOLEAN : StartSpawn("t1", ok, MaxSeqCmds)
  \/ \E c \in DOMAIN cmds : ChildExit(c)
  \/ \E c \in DOMAIN cmds, code \in {0, 1} : HandlerExit(c, code)
  \/ \E c \in DOMAIN cmds : HandlerRestarting(c)
  \/ \E c \in DOMAIN cmds, ok \in BOOLEAN : HandlerRespawn(c, ok, MaxSeqCmds)

SpecSeq == SeqInit /\ [][SeqNext]_vars

\* the delays, in seconds, of the first seven respawns
BackoffDelays == <<1, 2, 4, 8, 16, 30, 30>>

\* C7: the failure counter counts every handled exit and is never reset, and
\* the delay waited before the respawn that follows the k-th exit is
\* backoff(k): 1, 2, 4, 8, 16, 30, 30 seconds for k = 1..7, 30 seconds after
C7_RespawnDelays ==
  /\ heap[1].failures = Cardinality({c \in DOMAIN cmds : cmds[c].hpc # "wait"})
  /\ \A c \in DOMAIN cmds :
       cmds[c].hpc \in {"exited", "backoff"} =>
         /\ cmds[c].failures >= 1
         /\ cmds[c].failures <= heap[1].failures
  /\ \A c \in DOMAIN cmds :
       cmds[c].hpc = "backoff" =>
         cmds[c].delay = IF cmds[c].failures <= Len(BackoffDelays)
                         THEN BackoffDelays[cmds[c].failures]
                         ELSE BackoffCapSeconds

\* C7 witness: the seventh child in a row has exited and its respawn waits 30 s
C7_Witness ==
  /\ Len(cmds) = 7
  /\ \A c \in 1 .. 6 : cmds[c].hpc = "done"
  /\ cmds[7].hpc = "backoff" /\ cmds[7].failures = 7 /\ cmds[7].delay = 30
  /\ heap[1].failures = 7
  /\ heap[1].status = StatusRestarting

(***************************************************************************)
(* backoff as a pure function of the failure count.                        *)
(***************************************************************************)
BackoffInit ==
  /\ bo \in {[n |-> n, done |-> FALSE, d |-> FromNat(0)] : n \in 1 .. MaxFailures}
  /\ processes = [n \in Names |-> 0]
  /\ heap = <<>>
  /\ cmds = <<>>
  /\ ctxDone = FALSE
  /\ threads = [t \in Threads |-> IdleThread]
  /\ manifest = Nil
  /\ file = Nil
  /\ resp = Nil
  /\ items = Nil
  /\ poll = Nil
  /\ server = Nil
  /\ conns = Nil
  /\ reqCounter = 0
  /\ client = Nil /\ dm = Nil /\ app = Nil
  /\ logs = Nil

BackoffApply ==
  /\ ~bo.done
  /\ bo' = [bo EXCEPT !.done = TRUE, !.d = backoff(bo.n)]
  /\ UNCHANGED <<supVars, manVars, netVars, extVars>>

BackoffNext == BackoffApply

SpecBackoff == BackoffInit /\ [][BackoffNext]_vars

\* C8 (as claimed): backoff(n) = min(2^(n-1) s, 30 s) for every n >= 1: the
\* doubling below the cap, and exactly 30 s for every n >= 6, never a
\* smaller, zero or negative delay
C8_BackoffCapped ==
  bo.done =>
    bo.d = IF bo.n <= 5 THEN Seconds(Pow2(bo.n - 1))
           ELSE Seconds(BackoffCapSeconds)

(***************************************************************************)
(* The manifest (pkg/manifest).  A string that interpolation may expand    *)
(* (root, project, dir, compose, files) is the sequence of its pieces, a   *)
(* piece being literal text or a ${var} reference; <<>> is "".             *)
(***************************************************************************)
ManifestPath == "stasium.yaml"

\* one entry of Validate's result
Err(msg, x, y) == <<msg, x, y>>

\* the zero Item with a kind
Item(kind) ==
  [Kind |-> kind, Unit |-> "", Command |-> "", Dir |-> <<>>, Restart |-> "",
   Env |-> {}, Container |-> "", ComposeFile |-> <<>>, Service |-> "",
   Files |-> <<>>]
ExecItem(command, dir, restart) ==
  [Item("exec") EXCEPT !.Command = command, !.Dir = dir, !.Restart = restart]
SystemdItem(unit) == [Item("systemd") EXCEPT !.Unit = unit]
DockerItem(container) == [Item("docker") EXCEPT !.Container = container]
LogItem(files) == [Item("log") EXCEPT !.Files = files]

NoItems == [n \in {} |-> Item("")]

\* m.Items[name] = item
PutItem(its, name, item) ==
  [n \in DOMAIN its \cup {name} |-> IF n = name THEN item ELSE its[n]]
\* delete(m.Items, name)
DeleteItem(its, name) == [n \in DOMAIN its \ {name} |-> its[n]]

\* mutant: the old entry is not put back
NotRestored(m, name, old) == m
\* m.Items[name] = old on a failure path
Restored(m, name, old) == [m EXCEPT !.Items = PutItem(m.Items, name, old)]

\* the zero Manifest; loaded is FALSE for the daemon's nil manifest pointer
NoManifest ==
  [loaded |-> FALSE, Version |-> 0, Project |-> <<>>, Root |-> <<>>,
   Groups |-> <<>>, Items |-> NoItems, Rules |-> <<>>, FilePath |-> ""]

\* the per-item rules of Validate
ValidateItem(name, item) ==
  CASE item.Kind = "systemd" ->
         IF item.Unit = "" THEN {Err("unit is required", name, "")} ELSE {}
    [] item.Kind = "exec" ->
         (IF item.Command = "" THEN {Err("command is required", name, "")} ELSE {})
         \cup
         (IF item.Restart \notin {"", "always", "on-failure", "never"}
          THEN {Err("restart must be always, on-failure, or never", name, item.Restart)}
          ELSE {})
    [] item.Kind = "docker" ->
         IF item.Container = "" /\ (item.ComposeFile = <<>> \/ item.Service = "")
         THEN {Err("container or compose+service is required", name, "")} ELSE {}
    [] item.Kind = "log" ->
         IF Len(item.Files) = 0 THEN {Err("files is required", name, "")} ELSE {}
    [] item.Kind = "" -> {Err("kind is required", name, "")}
    [] OTHER -> {Err("unknown kind", name, item.Kind)}

\* Validate: the set of the errors it returns (their order follows the map
\* iteration)
Validate(m) ==
  (IF m.Version # 1 THEN {Err("version must be 1", "", "")} ELSE {})
  \cup (IF DOMAIN m.Items = {}
        THEN {Err("manifest must define at least one item", "", "")} ELSE {})
  \cup UNION {ValidateItem(n, m.Items[n]) : n \in DOMAIN m.Items}
  \cup UNION {{Err("group references unknown item", m.Groups[i].Name, m.Groups[i].Items[j]) :
                 j \in {k \in 1 .. Len(m.Groups[i].Items) :
                          m.Groups[i].Items[k] \notin DOMAIN m.Items}} :
              i \in 1 .. Len(m.Groups)}

\* the variable a ${...} piece names, "" for literal text
VarName(piece) ==
  CASE piece = "${root}" -> "root"
    [] piece = "${project}" -> "project"
    [] OTHER -> ""

\* interpolate's expand: known references are replaced (once, the inserted
\* text is not scanned again), unknown ones stay
RECURSIVE expand(_, _)
expand(str, vs) ==
  IF str = <<>> THEN <<>>
  ELSE (IF VarName(Head(str)) \in DOMAIN vs THEN vs[VarName(Head(str))]
        ELSE <<Head(str)>>) \o expand(Tail(str), vs)

interpolate(m) ==
  LET vs == [k \in {"root", "project"} |-> IF k = "root" THEN m.Root ELSE m.Project]
      ex(item) == [item EXCEPT !.Dir = expand(item.Dir, vs),
                               !.ComposeFile = expand(item.ComposeFile, vs),
                               !.Files = [i \in 1 .. Len(item.Files) |->
                                            expand(item.Files[i], vs)]]
  IN [m EXCEPT !.Items = [n \in DOMAIN m.Items |-> ex(m.Items[n])]]

\* yaml.Marshal of a manifest: FilePath is not serialized
Marshal(m) ==
  [Version |-> m.Version, Project |-> m.Project, Root |-> m.Root,
   Groups |-> m.Groups, Items |-> m.Items, Rules |-> m.Rules]

\* Parse: yaml.Unmarshal, then interpolate
Parse(doc) ==
  interpolate([loaded |-> TRUE, Version |-> doc.Version, Project |-> doc.Project,
               Root |-> doc.Root, Groups |-> doc.Groups, Items |-> doc.Items,
               Rules |-> doc.Rules, FilePath |-> ""])

\* Load of a readable file
Load(path, f) == [Parse(f.doc) EXCEPT !.FilePath = path]

\* the file Save leaves when the write succeeds: the header line, then the YAML
SavedFile(m) == [exists |-> TRUE, header |-> TRUE, doc |-> Marshal(m)]

\* no file at the path
MissingFile == [exists |-> FALSE, header |-> FALSE, doc |-> Marshal(NoManifest)]
\* os.WriteFile truncated the file and then failed
TruncatedFile == [exists |-> TRUE, header |-> FALSE, doc |-> Marshal(NoManifest)]

(***************************************************************************)
(* The daemon's manifest handlers (pkg/daemon/daemon.go).                  *)
(***************************************************************************)
\* uds.ItemPatch: the name and the item as a JSON object.  The object is the
\* item its members spell (a missing member is the zero value, members that
\* are no field of Item are dropped by the decoder); mistyped says that some
\* member has a JSON type its field cannot take.
ItemPatch(name, fields, mistyped) ==
  [set |-> TRUE, Name |-> name, Item |-> [fields |-> fields, mistyped |-> mistyped]]
\* a nil *ItemPatch
NoPatch ==
  [set |-> FALSE, Name |-> "", Item |-> [fields |-> Item(""), mistyped |-> FALSE]]

\* uds.UpdateManifestRequest
Request(remove, add, update) ==
  [RemoveItem |-> remove, AddItem |-> add, UpdateItem |-> update]

\* no request is being served
NoResp ==
  [pending |-> FALSE, method |-> "", req |-> Request("", NoPatch, NoPatch),
   ok |-> FALSE, errors |-> {}]
\* LoadManifestResponse / UpdateManifestResponse, with the request it answers
Response(method, req, ok, errors) ==
  [pending |-> TRUE, method |-> method, req |-> req, ok |-> ok, errors |-> errors]

\* patchToItem: JSON round trip into manifest.Item, then the kind check
patchToItem(obj) ==
  IF obj.mistyped THEN [item |-> Item(""), err |-> "decode item"]
  ELSE IF obj.fields.Kind = "" THEN [item |-> Item(""), err |-> "item kind is required"]
  ELSE [item |-> obj.fields, err |-> ""]

\* what a handler leaves: the manifest, whether Save was called and how it
\* ended ("none", "ok", "failed"), the response, the supervisor calls
Reply(m, save, ok, errors, calls) ==
  [m |-> m, save |-> save, ok |-> ok, errors |-> errors, calls |-> calls]

\* the policy the handlers pass to Register
RestartOf(item) == IF item.Restart = "" THEN RestartOnFailure ELSE item.Restart

\* mutant: Start is called before Register
StartAndRegister(name, item) ==
  <<Op("start", name),
    RegisterOp(name, item.Command, item.Dir, item.Env, RestartOf(item))>>
\* d.supervisor.Register(...) and then d.supervisor.Start(name)
RegisterAndStart(name, item) ==
  <<RegisterOp(name, item.Command, item.Dir, item.Env, RestartOf(item)),
    Op("start", name)>>

applyAddItem(m, patch, saveOK) ==
  IF patch.Name \in DOMAIN m.Items
  THEN Reply(m, "none", FALSE, {Err("item already exists", patch.Name, "")}, <<>>)
  ELSE LET conv == patchToItem(patch.Item)
           item == conv.item
           m1 == [m EXCEPT !.Items = PutItem(m.Items, patch.Name, item)]
           undone == [m1 EXCEPT !.Items = DeleteItem(m1.Items, patch.Name)]
       IN IF conv.err # ""
          THEN Reply(m, "none", FALSE, {Err(conv.err, "", "")}, <<>>)
          ELSE IF Validate(m1) # {}
          THEN Reply(undone, "none", FALSE, Validate(m1), <<>>)
          ELSE IF ~saveOK
          THEN Reply(undone, "failed", FALSE, {Err("write manifest", "", "")}, <<>>)
          ELSE Reply(m1, "ok", TRUE, {},
                     IF item.Kind = "exec" THEN RegisterAndStart(patch.Name, item)
                     ELSE <<>>)

applyUpdateItem(m, patch, saveOK) ==
  IF patch.Name \notin DOMAIN m.Items
  THEN Reply(m, "none", FALSE, {Err("item not found", patch.Name, "")}, <<>>)
  ELSE LET old == m.Items[patch.Name]
           conv == patchToItem(patch.Item)
           item == conv.item
           m1 == [m EXCEPT !.Items = PutItem(m.Items, patch.Name, item)]
           undone == Restored(m1, patch.Name, old)
       IN IF conv.err # ""
          THEN Reply(m, "none", FALSE, {Err(conv.err, "", "")}, <<>>)
          ELSE IF Validate(m1) # {}
          THEN Reply(undone, "none", FALSE, Validate(m1), <<>>)
          ELSE IF ~saveOK
          THEN Reply(undone, "failed", FALSE, {Err("write manifest", "", "")}, <<>>)
          ELSE Reply(m1, "ok", TRUE, {},
                     IF item.Kind = "exec"
                     THEN (IF old.Kind = "exec"
                              /\ (old.Command # item.Command \/ old.Dir # item.Dir)
                           THEN <<Op("unregister", patch.Name)>> ELSE <<>>)
                          \o RegisterAndStart(patch.Name, item)
                     ELSE IF old.Kind = "exec"
                     THEN <<Op("unregister", patch.Name)>>
                     ELSE <<>>)

\* mutant: the references are kept as they are
Unfiltered(refs, name) == refs
\* the group's references without name
Filtered(refs, name) == SelectSeq(refs, LAMBDA ref : ref # name)

applyRemoveItem(m, name, saveOK) ==
  IF name \notin DOMAIN m.Items
  THEN Reply(m, "none", FALSE, {Err("item not found", name, "")}, <<>>)
  ELSE LET old == m.Items[name]
           m1 == [m EXCEPT
                    !.Items = DeleteItem(m.Items, name),
                    !.Groups = [i \in 1 .. Len(m.Groups) |->
                                  [m.Groups[i] EXCEPT !.Items = Filtered(@, name)]]]
           undone == Restored(m1, name, old)
       IN IF ~saveOK
          THEN Reply(undone, "failed", FALSE, {Err("write manifest", "", "")}, <<>>)
          ELSE Reply(m1, "ok", TRUE, {},
                     IF old.Kind = "exec" THEN <<Op("unregister", name)>> ELSE <<>>)

handleUpdateManifest(m, req, saveOK) ==
  IF ~m.loaded
  THEN Reply(m, "none", FALSE, {Err("no manifest loaded", "", "")}, <<>>)
  ELSE IF req.RemoveItem # "" THEN applyRemoveItem(m, req.RemoveItem, saveOK)
  ELSE IF req.AddItem.set THEN applyAddItem(m, req.AddItem, saveOK)
  ELSE IF req.UpdateItem.set THEN applyUpdateItem(m, req.UpdateItem, saveOK)
  ELSE Reply(m, "none", FALSE, {Err("no operation specified", "", "")}, <<>>)

\* the daemon serves one request of the client at a time
Ready == ~resp.pending /\ ~Busy("d")

\* an UpdateManifest request: the handler runs under d.mu up to its supervisor
\* calls, which thread "d" then makes one by one before the response is sent.
\* A Save that fails leaves the file as it was or truncated.
UpdateManifest(req, saveOK, truncated) ==
  LET out == handleUpdateManifest(manifest, req, saveOK)
  IN /\ Ready
     /\ out.save = "none" => (saveOK /\ ~truncated)
     /\ out.save = "ok" => ~truncated
     /\ manifest' = out.m
     /\ file' = CASE out.save = "ok" -> SavedFile(out.m)
                  [] out.save = "failed" -> IF truncated THEN TruncatedFile ELSE file
                  [] OTHER -> file
     /\ resp' = Response("UpdateManifest", req, out.ok, out.errors)
     /\ threads' = [threads EXCEPT !["d"] =
          [IdleThread EXCEPT !.call = IF out.calls = <<>> THEN "" ELSE "UpdateManifest",
                             !.todo = out.calls]]
     /\ UNCHANGED <<processes, heap, cmds, ctxDone, bo, netVars, extVars>>

\* handleLoadManifest: the supervisor is not told
LoadManifest(path) ==
  /\ Ready
  /\ IF ~file.exists
     THEN /\ resp' = Response("LoadManifest", NoResp.req, FALSE, {Err("read manifest", path, "")})
          /\ manifest' = manifest
     ELSE LET m == Load(path, file)
          IN IF Validate(m) # {}
             THEN /\ resp' = Response("LoadManifest", NoResp.req, FALSE, Validate(m))
                  /\ manifest' = manifest
             ELSE /\ resp' = Response("LoadManifest", NoResp.req, TRUE, {})
                  /\ manifest' = m
  /\ UNCHANGED <<file, supVars, bo, netVars, extVars>>

\* the response leaves the daemon once the handler has returned
Respond ==
  /\ resp.pending
  /\ ~Busy("d")
  /\ resp' = NoResp
  /\ UNCHANGED <<manifest, file, supVars, bo, netVars, extVars>>

(***************************************************************************)
(* The manifest specification: a client sends LoadManifest and             *)
(* UpdateManifest requests to a daemon whose supervisor is running.        *)
(***************************************************************************)
SrvDir == <<"/srv", "/app">>

\* the manifest files the daemon may find
InitFiles ==
  { \* two items in two groups, one of them naming an item twice; the dir and
    \* the log file refer to root and project; one scoring rule
    [exists |-> TRUE, header |-> FALSE,
     doc |-> [Version |-> 1, Project |-> <<"p">>, Root |-> <<"/srv">>,
              Groups |-> <<[Name |-> "web", Items |-> <<"a", "b">>],
                           [Name |-> "all", Items |-> <<"b", "a", "b">>]>>,
              Rules |-> <<[Match |-> [k \in {"kind"} |-> "exec"], Score |-> 20]>>,
              Items |-> [n \in {"a", "b"} |->
                           IF n = "a"
                           THEN ExecItem("run", <<"${root}", "/app">>, RestartAlways)
                           ELSE LogItem(<<<<"${root}", "/", "${project}", ".log">>>>)]]],
    \* invalid: wrong version, an item without kind, a dangling group reference
    [exists |-> TRUE, header |-> FALSE,
     doc |-> [Version |-> 2, Project |-> <<"p">>, Root |-> <<"/srv">>,
              Groups |-> <<[Name |-> "web", Items |-> <<"a", "b">>]>>,
              Rules |-> <<>>,
              Items |-> [n \in {"a"} |-> DockerItem("")]]],
    MissingFile }

\* the items clients send
PatchFields ==
  { ExecItem("run", SrvDir, RestartNever),
    ExecItem("run", <<"/d2">>, ""),
    ExecItem("", SrvDir, ""),
    ExecItem("run", SrvDir, "sometimes"),
    SystemdItem("u1"),
    SystemdItem(""),
    DockerItem(""),
    LogItem(<<>>),
    Item("bogus"),
    Item("") }

\* the names clients add and update
PatchNames == {"a"}

Patches ==
  {ItemPatch(n, f, FALSE) : n \in PatchNames, f \in PatchFields}
  \cup {ItemPatch(n, SystemdItem("u1"), TRUE) : n \in PatchNames}

\* requests with one operation, with none, and with a removal next to an add
Requests ==
  {Request(n, NoPatch, NoPatch) : n \in Names}
  \cup {Request("", p, NoPatch) : p \in Patches}
  \cup {Request("", NoPatch, p) : p \in Patches}
  \cup {Request("", NoPatch, NoPatch)}
  \cup {Request(n, ItemPatch(n, SystemdItem("u1"), FALSE), NoPatch) : n \in Names}

ManInit ==
  /\ processes = [n \in Names |-> 0]
  /\ heap = <<>>
  /\ cmds = <<>>
  /\ ctxDone = FALSE
  /\ threads = [t \in Threads |-> IdleThread]
  /\ manifest = NoManifest
  /\ file \in InitFiles
  /\ resp = NoResp
  /\ bo = Nil
  /\ items = Nil
  /\ poll = Nil
  /\ server = Nil
  /\ conns = Nil
  /\ reqCounter = 0
  /\ client = Nil /\ dm = Nil /\ app = Nil
  /\ logs = Nil

ManNext ==
  \/ LoadManifest(ManifestPath)
  \/ \E req \in Requests, saveOK \in BOOLEAN, truncated \in BOOLEAN :
       UpdateManifest(req, saveOK, truncated)
  \/ Respond
  \/ Continue("d")
  \/ \E ok \in BOOLEAN : StartSpawn("d", ok, MaxManCmds)
  \/ StopKill("d")
  \/ StopFinish("d")
  \/ \E c \in DOMAIN cmds : ChildExit(c)
  \/ \E c \in DOMAIN cmds, code \in {-1, 0, 1} : HandlerExit(c, code)
  \/ \E c \in DOMAIN cmds : HandlerRestarting(c)
  \/ \E c \in DOMAIN cmds, ok \in BOOLEAN : HandlerRespawn(c, ok, MaxManCmds)

SpecManifest == ManInit /\ [][ManNext]_vars

(***************************************************************************)
(* Claims about the manifest handlers.                                     *)
(***************************************************************************)
\* the step in which handleUpdateManifest serves a request
UpdateServed == ~resp.pending /\ resp'.pending /\ resp'.method = "UpdateManifest"

\* the operation a request asks for
IsRemove(req) == req.RemoveItem # ""
IsAdd(req) == req.RemoveItem = "" /\ req.AddItem.set
IsUpdate(req) == req.RemoveItem = "" /\ ~req.AddItem.set /\ req.UpdateItem.set

\* the patch cannot become an item, or the manifest with that item under the
\* patch's name fails validation
InvalidPatch(m, patch) ==
  \/ patch.Item.mistyped
  \/ patch.Item.fields.Kind = ""
  \/ Validate([m EXCEPT !.Items = PutItem(m.Items, patch.Name, patch.Item.fields)]) # {}

\* the request has to be rejected in manifest m
MustReject(m, req) ==
  \/ ~m.loaded
  \/ IsRemove(req) /\ req.RemoveItem \notin DOMAIN m.Items
  \/ IsAdd(req) /\ (req.AddItem.Name \in DOMAIN m.Items \/ InvalidPatch(m, req.AddItem))
  \/ IsUpdate(req)
       /\ (req.UpdateItem.Name \notin DOMAIN m.Items \/ InvalidPatch(m, req.UpdateItem))
  \/ ~IsRemove(req) /\ ~IsAdd(req) /\ ~IsUpdate(req)

\* C9: a request that has to be rejected (no manifest loaded, no operation,
\* add of an existing name, update or removal of an unknown name, an item that
\* cannot be decoded or fails validation) is answered with ok = false and a
\* non-empty error list; the manifest in memory and the file are as before and
\* no supervisor operation is called
C9_RejectedLeavesNoTrace ==
  [][(UpdateServed /\ MustReject(manifest, resp'.req)) =>
       /\ ~resp'.ok
       /\ resp'.errors # {}
       /\ manifest' = manifest
       /\ file' = file
       /\ UNCHANGED supVars]_vars

\* C9 witness: after a committed mutation (the file carries the header), an
\* add of an exec item without command under a free name was rejected
C9_Witness ==
  /\ resp.pending /\ resp.method = "UpdateManifest"
  /\ manifest.loaded /\ file.header
  /\ IsAdd(resp.req)
  /\ resp.req.AddItem.Name \notin DOMAIN manifest.Items
  /\ resp.req.AddItem.Item.fields = ExecItem("", SrvDir, "")
  /\ ~resp.ok
  /\ resp.errors = {Err("command is required", resp.req.AddItem.Name, "")}
  /\ ~Busy("d")

\* the error of a failed Save
WriteError == {Err("write manifest", "", "")}

\* C10 (as claimed): when Save fails during an add, update or removal, the
\* manifest in memory (items and every group's members) is what it was before
\* the operation, the response is ok = false, and no supervisor operation is
\* called
C10_SaveFailureDiscards ==
  [][(UpdateServed /\ resp'.errors = WriteError) =>
       /\ ~resp'.ok
       /\ manifest'.Items = manifest.Items
       /\ manifest'.Groups = manifest.Groups
       /\ manifest' = manifest
       /\ UNCHANGED supVars]_vars

\* the item a patch spells
PatchItem(patch) == patch.Item.fields

\* C11 (as claimed): every committed mutation was validated, so after a
\* successful AddItem, UpdateItem or RemoveItem the manifest in memory and the
\* persisted file satisfy every validation rule (version 1, at least one
\* item, the fields each kind requires, no dangling group member)
C11_CommittedIsValid ==
  [][(UpdateServed /\ resp'.ok) =>
       /\ Validate(manifest') = {}
       /\ file'.exists
       /\ Validate(Parse(file'.doc)) = {}]_vars

RECURSIVE Without(_, _)
Without(refs, name) ==
  IF refs = <<>> THEN <<>>
  ELSE IF Head(refs) = name THEN Without(Tail(refs), name)
  ELSE <<Head(refs)>> \o Without(Tail(refs), name)

\* C13: after a successful RemoveItem(name) no group has name as a member;
\* the groups are the same groups in the same order, each with its previous
\* members without name in their previous order, and every other item of the
\* manifest is what it was
C13_RemoveScrubsGroups ==
  [][(UpdateServed /\ resp'.ok /\ IsRemove(resp'.req)) =>
       LET name == resp'.req.RemoveItem
       IN /\ Len(manifest'.Groups) = Len(manifest.Groups)
          /\ \A i \in 1 .. Len(manifest.Groups) :
               /\ manifest'.Groups[i].Name = manifest.Groups[i].Name
               /\ manifest'.Groups[i].Items = Without(manifest.Groups[i].Items, name)
               /\ \A j \in 1 .. Len(manifest'.Groups[i].Items) :
                    manifest'.Groups[i].Items[j] # name
          /\ DOMAIN manifest'.Items = DOMAIN manifest.Items \ {name}
          /\ \A n \in DOMAIN manifest'.Items :
               manifest'.Items[n] = manifest.Items[n]]_vars

\* C13 witness: "a" was removed from a manifest whose group "all" named it
\* between two references to "b"
C13_Witness ==
  /\ resp.pending /\ resp.ok /\ resp.req.RemoveItem = "a"
  /\ Len(manifest.Groups) = 2
  /\ manifest.Groups[1].Items = <<"b">>
  /\ manifest.Groups[2].Items = <<"b", "b">>
  /\ DOMAIN manifest.Items = {"b"}

(***************************************************************************)
(* The item table and the poll loop's pure functions (pkg/core,            *)
(* pkg/daemon poll loop).  CPUPct is kept in tenths of a percent; the      *)
(* lists of a Delta are built in map-iteration order and hold no entry     *)
(* twice: they are the sets of their entries.                              *)
(***************************************************************************)
\* core.Item, with UptimeSec for the fields the daemon only passes on
CoreItem(id, kind, status) ==
  [ID |-> id, Kind |-> kind, Group |-> "", Status |-> status, Score |-> 0,
   CPUPct |-> 0, MemBytes |-> 0, UptimeSec |-> 0]

\* the empty map[string]core.Item
NoTable == [id \in {} |-> CoreItem("", "", "")]

matchesManifestItem(item, mi) == item.Kind = mi.Kind

matchesRule(item, rule) ==
  \A k \in DOMAIN rule.Match :
    /\ k = "kind" => item.Kind = rule.Match[k]
    /\ k = "group" => item.Group = rule.Match[k]

\* the scores of the rules that match
RECURSIVE RuleScore(_, _)
RuleScore(item, rules) ==
  IF rules = <<>> THEN 0
  ELSE (IF matchesRule(item, Head(rules)) THEN Head(rules).Score ELSE 0)
       + RuleScore(item, Tail(rules))

\* 5.0 percent, in tenths
CPUBonusOver == 50
MemBonusOver == 100 * 1024 * 1024

\* mutant: the cpu bonus is given from 5.0 percent on
computeScoreFrom(item, m) ==
  (IF m.loaded /\ \E n \in DOMAIN m.Items : matchesManifestItem(item, m.Items[n])
   THEN 60 ELSE 0)
  + (IF m.loaded THEN RuleScore(item, m.Rules) ELSE 0)
  + (IF item.CPUPct >= CPUBonusOver THEN 10 ELSE 0)
  + (IF item.MemBytes > MemBonusOver THEN 5 ELSE 0)
computeScore(item, m) ==
  (IF m.loaded /\ \E n \in DOMAIN m.Items : matchesManifestItem(item, m.Items[n])
   THEN 60 ELSE 0)
  + (IF m.loaded THEN RuleScore(item, m.Rules) ELSE 0)
  + (IF item.CPUPct > CPUBonusOver THEN 10 ELSE 0)
  + (IF item.MemBytes > MemBonusOver THEN 5 ELSE 0)

\* mutant: every field is compared
itemDiffers(a, b) == a # b
itemChanged(a, b) ==
  \/ a.Status # b.Status
  \/ a.CPUPct # b.CPUPct
  \/ a.MemBytes # b.MemBytes
  \/ a.Score # b.Score

computeDelta(old, new) ==
  [Added |-> {new[id] : id \in DOMAIN new \ DOMAIN old},
   Updated |-> {new[id] : id \in {i \in DOMAIN new \cap DOMAIN old :
                                    itemChanged(old[i], new[i])}},
   Removed |-> DOMAIN old \ DOMAIN new]

\* mutant: only added items count
HasAdded(d) == d.Added # {}
HasChanges(d) == d.Added # {} \/ d.Updated # {} \/ d.Removed # {}

(***************************************************************************)
(* The delta specification: computeDelta applied to two item tables.       *)
(***************************************************************************)
\* the inputs: all pairs of tables over two ids whose items are an item or
\* differ from it in one field
DeltaInit ==
  LET Variants(it) ==
        {it,
         [it EXCEPT !.Status = StatusStopped],
         [it EXCEPT !.CPUPct = 60],
         [it EXCEPT !.MemBytes = 1],
         [it EXCEPT !.Score = 5],
         [it EXCEPT !.UptimeSec = 7],
         [it EXCEPT !.Group = "web"]}
      Items(S) == UNION {Variants(CoreItem(id, "exec", StatusRunning)) : id \in S}
      DeltaTables ==
        UNION {{t \in [S -> Items(S)] : \A id \in S : t[id].ID = id} :
               S \in SUBSET {"exec:supervisor:a", "process:procfs:1"}}
  IN
  /\ bo \in {[old |-> o, new |-> n, done |-> FALSE,
               delta |-> computeDelta(NoTable, NoTable)] :
               o \in DeltaTables, n \in DeltaTables}
  /\ processes = [n \in Names |-> 0]
  /\ heap = <<>>
  /\ cmds = <<>>
  /\ ctxDone = FALSE
  /\ threads = [t \in Threads |-> IdleThread]
  /\ manifest = Nil
  /\ file = Nil
  /\ resp = Nil
  /\ items = Nil
  /\ poll = Nil
  /\ server = Nil
  /\ conns = Nil
  /\ reqCounter = 0
  /\ client = Nil /\ dm = Nil /\ app = Nil
  /\ logs = Nil

DeltaApply ==
  /\ ~bo.done
  /\ bo' = [bo EXCEPT !.done = TRUE, !.delta = computeDelta(bo.old, bo.new)]
  /\ UNCHANGED <<supVars, manVars, netVars, extVars>>

DeltaNext == DeltaApply

SpecDelta == DeltaInit /\ [][DeltaNext]_vars

\* the ids of the items of a list
IdsOf(list) == {it.ID : it \in list}
\* the fields whose change makes an item updated
Quadruple(it) == <<it.Status, it.CPUPct, it.MemBytes, it.Score>>

\* C15: for any old and new table the delta's lists are pairwise disjoint
\* (as ids) and hold no id twice; added are the new table's items whose id is
\* not in old, removed the ids of old that are not in new, updated the new
\* table's items whose id is in both and whose (status, cpu, memory, score)
\* differs: a change of another field alone updates nothing, and identical
\* tables give the empty delta
C15_DeltaLists ==
  bo.done =>
    LET d == bo.delta
        both == DOMAIN bo.old \cap DOMAIN bo.new
    IN /\ IdsOf(d.Added) \cap IdsOf(d.Updated) = {}
       /\ IdsOf(d.Added) \cap d.Removed = {}
       /\ IdsOf(d.Updated) \cap d.Removed = {}
       /\ Cardinality(IdsOf(d.Added)) = Cardinality(d.Added)
       /\ Cardinality(IdsOf(d.Updated)) = Cardinality(d.Updated)
       /\ IdsOf(d.Added) = DOMAIN bo.new \ DOMAIN bo.old
       /\ d.Removed = DOMAIN bo.old \ DOMAIN bo.new
       /\ IdsOf(d.Updated) =
            {id \in both : Quadruple(bo.old[id]) # Quadruple(bo.new[id])}
       /\ \A it \in d.Added \cup d.Updated : it = bo.new[it.ID]
       /\ bo.old = bo.new =>
            d.Added = {} /\ d.Updated = {} /\ d.Removed = {}

\* C15 witness: of two items in both tables one changed its status and the
\* other only its uptime; the delta has the first as its only entry
C15_Witness ==
  /\ bo.done
  /\ DOMAIN bo.old = {"exec:supervisor:a", "process:procfs:1"}
  /\ DOMAIN bo.new = DOMAIN bo.old
  /\ bo.new["exec:supervisor:a"] = [bo.old["exec:supervisor:a"] EXCEPT !.Status = StatusStopped]
  /\ bo.old["exec:supervisor:a"].Status = StatusRunning
  /\ bo.new["process:procfs:1"] = [bo.old["process:procfs:1"] EXCEPT !.UptimeSec = 7]
  /\ bo.old["process:procfs:1"].UptimeSec = 0
  /\ bo.delta.Updated = {bo.new["exec:supervisor:a"]}
  /\ bo.delta.Added = {} /\ bo.delta.Removed = {}

(***************************************************************************)
(* The transport (pkg/transport/uds).  An id is the pair of its prefix and *)
(* its counter value, an error string the tuple of its pieces (<<>> is     *)
(* ""), a payload a record.                                                *)
(***************************************************************************)
\* connections ever accepted
MaxConns == 2
\* lines a client sends on its connection
MaxLines == 2
\* ticks of the poll loop
MaxTicks == 2

ConnIds == 1 .. MaxConns

\* a nil payload
NoData == [null |-> TRUE]

\* uds.Message; Type is MsgTypeReq "req", MsgTypeRes "res" or MsgTypeEvt "evt"
Message(type, id, method, data, error) ==
  [Type |-> type, ID |-> id, Method |-> method, Data |-> data, Error |-> error]
NoMessage == Message("", <<"", 0>>, "", NoData, <<>>)

NewResponse(reqID, method, data) == Message("res", reqID, method, data, <<>>)
NewErrorResponse(reqID, method, errMsg) ==
  Message("res", reqID, method, NoData, errMsg)
\* NewEvent when reqCounter.Add(1) returned n
NewEvent(method, data, n) == Message("evt", <<"evt", n>>, method, data, <<>>)

\* the methods registerHandlers registers
Handlers ==
  {"Ping", "LoadManifest", "ListItems", "GetItem", "Action", "UpdateManifest"}

\* a connection nobody has dialed yet.  st: "free", "accepted" (Accept has
\* returned it, the accept loop has not yet put it into s.clients), "open"
\* (in s.clients, handleConn runs), "closed" (handleConn has closed it and
\* not yet deleted it from s.clients), "gone".  peerOpen: the client has not
\* closed its end.  inbox: the lines sent and not yet scanned.  out: the
\* messages written to the connection.  lines and calls record every line
\* the client has sent and every handler call with what it returned.
FreeConn ==
  [st |-> "free", peerOpen |-> TRUE, inbox |-> <<>>, lines |-> <<>>,
   pc |-> "scan", req |-> NoMessage, out |-> <<>>, calls |-> <<>>]

\* conn.Write succeeds
Writable(conn) == conn.st = "open" /\ conn.peerOpen

\* mutant: the line is put in front of what was written before
WrittenFirst(conn, msg) ==
  IF Writable(conn) THEN [conn EXCEPT !.out = <<msg>> \o @] ELSE conn
\* conn.Write(line) of a message: all of the line or, on an error, nothing
Written(conn, msg) ==
  IF Writable(conn) THEN [conn EXCEPT !.out = Append(@, msg)] ELSE conn

\* the accept loop: ln.Accept() returns a new connection
Accept(c) ==
  /\ conns[c].st = "free"
  /\ \A d \in ConnIds : conns[d].st # "accepted" /\ (d < c => conns[d].st # "free")
  /\ conns' = [conns EXCEPT ![c].st = "accepted"]
  /\ UNCHANGED <<supVars, manVars, bo, extVars, items, poll, server, reqCounter>>

\* the accept loop: s.clients[conn] = struct{}{} under s.mu, go handleConn
RegisterConn(c) ==
  /\ conns[c].st = "accepted"
  /\ ~server.bc.active
  /\ conns' = [conns EXCEPT ![c].st = "open"]
  /\ server' = [server EXCEPT !.clients = @ \cup {c}]
  /\ UNCHANGED <<supVars, manVars, bo, extVars, items, poll, reqCounter>>

\* the client writes a line
ClientSend(c, line) ==
  /\ conns[c].st \in {"accepted", "open"}
  /\ conns[c].peerOpen
  /\ Len(conns[c].lines) < MaxLines
  /\ conns' = [conns EXCEPT ![c].inbox = Append(@, line), ![c].lines = Append(@, line)]
  /\ UNCHANGED <<supVars, manVars, bo, extVars, items, poll, server, reqCounter>>

\* the client closes the connection
ClientClose(c) ==
  /\ conns[c].st \in {"accepted", "open"}
  /\ conns[c].peerOpen
  /\ conns' = [conns EXCEPT ![c].peerOpen = FALSE]
  /\ UNCHANGED <<supVars, manVars, bo, extVars, items, poll, server, reqCounter>>

\* mutant: the scanner returns the newest line
ScannedLast(inbox) ==
  [line |-> inbox[Len(inbox)], rest |-> SubSeq(inbox, 1, Len(inbox) - 1)]
\* scanner.Scan() and scanner.Bytes(): the oldest unread line
Scanned(inbox) == [line |-> Head(inbox), rest |-> Tail(inbox)]

\* mutant: every decodable line is dispatched
IsAnyLine(line) == line.valid
\* the line decodes and is a request
IsRequest(line) == line.valid /\ line.msg.Type = "req"

\* handleConn: scanner.Scan() returns a line (a line that is no request is
\* dropped, a request for an unknown method is answered at once, another is
\* handed to its handler), or it returns false and the deferred conn.Close()
\* runs
Scan(c) ==
  LET conn == conns[c]
      line == Scanned(conn.inbox).line
      rest == [conn EXCEPT !.inbox = Scanned(conn.inbox).rest]
      unknown == NewErrorResponse(line.msg.ID, line.msg.Method,
                                  <<"unknown method: ", line.msg.Method>>)
  IN /\ conn.st = "open"
     /\ conn.pc = "scan"
     /\ IF conn.inbox # <<>>
        THEN conns' = [conns EXCEPT ![c] =
               IF ~IsRequest(line) THEN rest
               ELSE IF line.msg.Method \notin Handlers
               THEN Written(rest, unknown)
               ELSE [rest EXCEPT !.pc = "handler", !.req = line.msg]]
        ELSE /\ ~conn.peerOpen
             /\ conns' = [conns EXCEPT ![c].st = "closed"]
     /\ UNCHANGED <<supVars, manVars, bo, extVars, items, poll, server, reqCounter>>

\* handlePing, handleListItems, handleGetItem: the result or the error
handle(msg, table) ==
  CASE msg.Method = "Ping" -> [data |-> [Pong |-> TRUE], err |-> <<>>]
    [] msg.Method = "ListItems" ->
         [data |-> [Items |-> {table[id] : id \in DOMAIN table}], err |-> <<>>]
    [] msg.Method = "GetItem" ->
         IF msg.Data = NoData
         THEN [data |-> NoData, err |-> <<"invalid request: ", "unexpected end of JSON input">>]
         ELSE IF msg.Data.ID \in DOMAIN table
         THEN [data |-> table[msg.Data.ID], err |-> <<>>]
         ELSE [data |-> NoData, err |-> <<"item not found: ", msg.Data.ID>>]

\* handleConn: the handler returns and the response is written
HandlerReturn(c) ==
  LET conn == conns[c]
      ret == handle(conn.req, items)
      res == IF ret.err # <<>>
             THEN NewErrorResponse(conn.req.ID, conn.req.Method, ret.err)
             ELSE NewResponse(conn.req.ID, conn.req.Method, ret.data)
  IN /\ conn.st = "open"
     /\ conn.pc = "handler"
     /\ conns' = [conns EXCEPT ![c] =
          [Written(conn, res) EXCEPT
             !.pc = "scan", !.req = NoMessage,
             !.calls = Append(@, [req |-> conn.req, ret |-> ret])]]
     /\ UNCHANGED <<supVars, manVars, bo, extVars, items, poll, server, reqCounter>>

\* handleConn's deferred delete(s.clients, conn) under s.mu
Unregister(c) ==
  /\ conns[c].st = "closed"
  /\ ~server.bc.active
  /\ conns' = [conns EXCEPT ![c].st = "gone"]
  /\ server' = [server EXCEPT !.clients = @ \ {c}]
  /\ UNCHANGED <<supVars, manVars, bo, extVars, items, poll, reqCounter>>

\* no Broadcast is under way
NoBroadcast == [active |-> FALSE, msg |-> NoMessage, todo |-> {}]

\* Broadcast takes s.mu.RLock and ranges over s.clients
Broadcast(msg) == [active |-> server.clients # {}, msg |-> msg, todo |-> server.clients]

\* mutant: a failed write ends the loop
RemainingUntilError(todo, c, ok) == IF ok THEN todo \ {c} ELSE {}
\* the clients Broadcast's loop still has to visit after c
Remaining(todo, c, ok) == todo \ {c}

\* Broadcast: conn.Write(line) to the next client of the range; after the last
\* one s.mu.RUnlock and tick returns
BroadcastWrite(c) ==
  LET todo == Remaining(server.bc.todo, c, Writable(conns[c]))
  IN /\ server.bc.active
     /\ c \in server.bc.todo
     /\ conns' = [conns EXCEPT ![c] = Written(@, server.bc.msg)]
     /\ server' = [server EXCEPT !.bc = IF todo = {} THEN NoBroadcast
                                         ELSE [@ EXCEPT !.todo = todo]]
     /\ poll' = IF todo = {} THEN [poll EXCEPT !.pc = "idle"] ELSE poll
     /\ UNCHANGED <<supVars, manVars, bo, extVars, items, reqCounter>>

(***************************************************************************)
(* The poll loop (pkg/daemon).                                             *)
(***************************************************************************)
\* what p.List returned: an error or the items
Listed(list) == [err |-> FALSE, list |-> list]
ListFailed == [err |-> TRUE, list |-> <<>>]

\* newItems[item.ID] = item for the items of a list, in its order
RECURSIVE PutAll(_, _)
PutAll(table, list) ==
  IF list = <<>> THEN table
  ELSE PutAll(PutItem(table, Head(list).ID, Head(list)), Tail(list))

\* mutant: a provider's error ends the loop over the providers
RECURSIVE CollectUntilError(_, _)
CollectUntilError(table, outs) ==
  IF outs = <<>> \/ Head(outs).err THEN table
  ELSE CollectUntilError(PutAll(table, Head(outs).list), Tail(outs))
\* tick's loop over the providers, in registration order
RECURSIVE Collect(_, _)
Collect(table, outs) ==
  IF outs = <<>> THEN table
  ELSE Collect(IF Head(outs).err THEN table ELSE PutAll(table, Head(outs).list),
               Tail(outs))

\* mutant: the scores are left as the providers gave them
NotScored(table, m) == table
\* tick's scoring loop
Scored(table, m) ==
  [id \in DOMAIN table |-> [table[id] EXCEPT !.Score = computeScore(table[id], m)]]

\* the poll loop before its first tick.  outs, old and sent record the last
\* tick's provider results, the table it replaced and the events handed to
\* Broadcast so far.
PollIdle ==
  [pc |-> "idle", cycle |-> 0, outs |-> <<>>, old |-> NoTable, sent |-> <<>>]

\* tick, up to the first write of Broadcast: the providers are listed, the
\* items scored, the table swapped under d.mu, the delta computed and, if it
\* has changes, the event made and Broadcast entered
Tick(outs) ==
  LET newItems == Scored(Collect(NoTable, outs), manifest)
      delta == computeDelta(items, newItems)
      evt == NewEvent("items.delta", delta, reqCounter + 1)
      bc == Broadcast(evt)
  IN /\ poll.pc = "idle"
     /\ poll.cycle < MaxTicks
     /\ items' = newItems
     /\ IF HasChanges(delta)
        THEN /\ reqCounter' = reqCounter + 1
             /\ server' = [server EXCEPT !.bc = IF bc.active THEN bc ELSE NoBroadcast]
             /\ poll' = [pc |-> IF bc.active THEN "broadcast" ELSE "idle",
                         cycle |-> poll.cycle + 1, outs |-> outs, old |-> items,
                         sent |-> Append(poll.sent, evt)]
        ELSE /\ poll' = [poll EXCEPT !.cycle = @ + 1, !.outs = outs, !.old = items]
             /\ UNCHANGED <<reqCounter, server>>
     /\ UNCHANGED <<supVars, manVars, bo, extVars, conns>>

(***************************************************************************)
(* The poll specification: two providers, clients that connect and leave.  *)
(***************************************************************************)
ItemA(status) == CoreItem("exec:supervisor:a", "exec", status)
ItemB == [CoreItem("process:procfs:1", "process", StatusRunning) EXCEPT !.MemBytes = MemBonusOver + 1]
\* an item of the second provider under the id of the first provider's item
ItemA2 == [CoreItem("exec:supervisor:a", "process", StatusRunning) EXCEPT !.CPUPct = 60]

\* what the two registered providers may return in a cycle
PollOutputs ==
  {<<o1, o2>> :
     o1 \in {ListFailed, Listed(<<>>), Listed(<<ItemA(StatusRunning)>>),
             Listed(<<ItemA(StatusStopped)>>),
             Listed(<<ItemA(StatusStopped), ItemA(StatusRunning)>>)},
     o2 \in {ListFailed, Listed(<<>>), Listed(<<ItemB>>), Listed(<<ItemA2, ItemB>>)}}

PollInit ==
  /\ processes = [n \in Names |-> 0]
  /\ heap = <<>>
  /\ cmds = <<>>
  /\ ctxDone = FALSE
  /\ threads = [t \in Threads |-> IdleThread]
  /\ manifest \in {NoManifest} \cup {Load(ManifestPath, f) : f \in {g \in InitFiles : g.exists /\ Validate(Parse(g.doc)) = {}}}
  /\ file = Nil
  /\ resp = Nil
  /\ bo = Nil
  /\ items = NoTable
  /\ poll = PollIdle
  /\ server = [clients |-> {}, bc |-> NoBroadcast]
  /\ conns = [c \in ConnIds |-> FreeConn]
  /\ reqCounter = 0
  /\ client = Nil /\ dm = Nil /\ app = Nil
  /\ logs = Nil

PollNext ==
  \/ \E outs \in PollOutputs : Tick(outs)
  \/ \E c \in ConnIds : BroadcastWrite(c)
  \/ \E c \in ConnIds : Accept(c)
  \/ \E c \in ConnIds : RegisterConn(c)
  \/ \E c \in ConnIds : ClientClose(c)
  \/ \E c \in ConnIds : Scan(c)
  \/ \E c \in ConnIds : Unregister(c)

SpecPoll == PollInit /\ [][PollNext]_vars

(***************************************************************************)
(* Claims about the poll loop.                                             *)
(***************************************************************************)
\* the items of the providers whose list succeeded, in registration order
RECURSIVE Flat(_)
Flat(outs) ==
  IF outs = <<>> THEN <<>>
  ELSE (IF Head(outs).err THEN <<>> ELSE Head(outs).list) \o Flat(Tail(outs))

\* an item without its score
Unscored(it) == [it EXCEPT !.Score = 0]

\* C14: after every poll cycle the item table is the map built from that
\* cycle's provider results in registration order: its ids are the ids the
\* providers whose list succeeded returned (so a provider that failed
\* contributes nothing and stops nothing, and nothing of an earlier cycle
\* stays), and each id has the item listed last under it, with its score
C14_TableIsThisCycle ==
  poll.cycle > 0 =>
    LET flat == Flat(poll.outs)
        LastAt(id) == CHOOSE i \in 1 .. Len(flat) :
                        /\ flat[i].ID = id
                        /\ \A j \in i + 1 .. Len(flat) : flat[j].ID # id
    IN /\ DOMAIN items = {flat[i].ID : i \in 1 .. Len(flat)}
       /\ \A id \in DOMAIN items : Unscored(items[id]) = Unscored(flat[LastAt(id)])

\* C14 witness: in the second cycle the first provider failed and the second
\* listed one item; the first provider's item of the cycle before is gone
C14_Witness ==
  /\ poll.cycle = 2
  /\ poll.outs = <<ListFailed, Listed(<<ItemB>>)>>
  /\ "exec:supervisor:a" \in DOMAIN poll.old
  /\ DOMAIN items = {"process:procfs:1"}

\* a step that is a tick of the poll loop
TickStep == poll'.cycle = poll.cycle + 1

\* the two tables differ in their ids or in the (status, cpu, memory, score)
\* of an id
TablesDiffer(old, new) ==
  \/ DOMAIN old # DOMAIN new
  \/ \E id \in DOMAIN old \cap DOMAIN new : Quadruple(old[id]) # Quadruple(new[id])

\* the messages of a sequence that are msg
Copies(out, msg) == Cardinality({i \in 1 .. Len(out) : out[i] = msg})

\* C16: only a tick hands an event to Broadcast, at most one, and one iff the
\* previous and the new table differ; it is an items.delta event.  When the
\* table went from A(running) to A(stopped), the event carries A(stopped) as
\* its only updated item and nothing added or removed, and every client
\* connected during the broadcast has received it exactly once when the
\* broadcast ends.
C16_OneDeltaPerChange ==
  [][/\ poll'.sent # poll.sent => TickStep
     /\ TickStep =>
          IF TablesDiffer(items, items')
          THEN /\ Len(poll'.sent) = Len(poll.sent) + 1
               /\ SubSeq(poll'.sent, 1, Len(poll.sent)) = poll.sent
               /\ poll'.sent[Len(poll'.sent)].Type = "evt"
               /\ poll'.sent[Len(poll'.sent)].Method = "items.delta"
               /\ server.clients # {} => server'.bc.msg = poll'.sent[Len(poll'.sent)]
          ELSE poll'.sent = poll.sent /\ server' = server
     /\ (TickStep /\ DOMAIN items = {"exec:supervisor:a"} /\ DOMAIN items' = {"exec:supervisor:a"}
           /\ items["exec:supervisor:a"].Status = StatusRunning
           /\ Unscored(items'["exec:supervisor:a"]) = ItemA(StatusStopped)) =>
          poll'.sent[Len(poll'.sent)].Data =
            [Added |-> {}, Updated |-> {items'["exec:supervisor:a"]}, Removed |-> {}]
     /\ (server.bc.active /\ ~server'.bc.active) =>
          \A c \in server.clients :
            Writable(conns'[c]) => Copies(conns'[c].out, server.bc.msg) = 1]_vars

\* C16 witness: two clients were connected when A(running) became A(stopped)
\* in the second cycle, and each has received that cycle's event once
C16_Witness ==
  /\ poll.pc = "idle" /\ poll.cycle = 2 /\ Len(poll.sent) = 2
  /\ DOMAIN poll.old = {"exec:supervisor:a"}
  /\ poll.old["exec:supervisor:a"].Status = StatusRunning
  /\ DOMAIN items = {"exec:supervisor:a"}
  /\ Unscored(items["exec:supervisor:a"]) = ItemA(StatusStopped)
  /\ poll.sent[2].Data = [Added |-> {}, Updated |-> {items["exec:supervisor:a"]}, Removed |-> {}]
  /\ \A c \in ConnIds :
       /\ c \in server.clients
       /\ Writable(conns[c])
       /\ Copies(conns[c].out, poll.sent[2]) = 1

(***************************************************************************)
(* The server specification: clients send lines while the poll loop        *)
(* broadcasts the deltas of an item that stops and starts.                 *)
(***************************************************************************)
ServerNext ==
  \/ \E status \in {StatusRunning, StatusStopped} :
       Tick(<<Listed(<<ItemA(status)>>), ListFailed>>)
  \/ \E c \in ConnIds : BroadcastWrite(c)
  \/ \E c \in ConnIds : Accept(c)
  \/ \E c \in ConnIds : RegisterConn(c)
  \/ \E c \in {1} :
       \* the lines of the first client (the others only listen): its next
       \* request (for a registered method with and without payload, for a
       \* method without handler), a line of another type, a line that is no
       \* JSON
       LET id == <<"req", Len(conns[c].lines) + 1>>
       IN \E line \in
            {[valid |-> TRUE, msg |-> Message("req", id, "Ping", NoData, <<>>)],
             [valid |-> TRUE,
              msg |-> Message("req", id, "GetItem", [ID |-> "exec:supervisor:a"], <<>>)],
             [valid |-> TRUE, msg |-> Message("req", id, "GetItem", NoData, <<>>)],
             [valid |-> TRUE, msg |-> Message("req", id, "LogsSubscribe", NoData, <<>>)],
             [valid |-> TRUE, msg |-> Message("evt", id, "Ping", NoData, <<>>)],
             [valid |-> FALSE, msg |-> NoMessage]} :
            ClientSend(c, line)
  \/ \E c \in ConnIds : ClientClose(c)
  \/ \E c \in ConnIds : Scan(c)
  \/ \E c \in ConnIds : HandlerReturn(c)
  \/ \E c \in ConnIds : Unregister(c)

SpecServer == PollInit /\ [][ServerNext]_vars

(***************************************************************************)
(* Claims about the transport server.                                      *)
(***************************************************************************)
\* the place of an event in the order of the Broadcast calls
BroadcastNo(msg) == CHOOSE k \in 1 .. Len(poll.sent) : poll.sent[k] = msg

\* C17: every client receives the events in the order of the Broadcast
\* calls: of two events on a connection the one broadcast first (the delta of
\* the earlier poll cycle) is written first, whatever responses are written
\* to the connection in between
C17_EventsInBroadcastOrder ==
  \A c \in ConnIds :
    LET out == conns[c].out
    IN \A i \in 1 .. Len(out) : \A j \in i + 1 .. Len(out) :
         (out[i].Type = "evt" /\ out[j].Type = "evt") =>
           /\ \E k \in 1 .. Len(poll.sent) : poll.sent[k] = out[i]
           /\ \E k \in 1 .. Len(poll.sent) : poll.sent[k] = out[j]
           /\ BroadcastNo(out[i]) < BroadcastNo(out[j])

\* C17 witness: a client has received the first event, then a response, then
\* the second event
C17_Witness ==
  /\ Len(poll.sent) = 2
  /\ \E c \in ConnIds :
       /\ Len(conns[c].out) = 3
       /\ conns[c].out[1] = poll.sent[1]
       /\ conns[c].out[2].Type = "res"
       /\ conns[c].out[3] = poll.sent[2]

\* the clients Broadcast's loop visits in this step
Visited ==
  IF server'.bc.active THEN server.bc.todo \ server'.bc.todo ELSE server.bc.todo

RequestsDone(conn) ==
  LET read == SubSeq(conn.lines, 1, Len(conn.lines) - Len(conn.inbox))
      reqs == SelectSeq(read, LAMBDA l : l.valid /\ l.msg.Type = "req")
  IN IF conn.pc = "handler" THEN SubSeq(reqs, 1, Len(reqs) - 1) ELSE reqs

\* the responses written to a connection
Responses(conn) == SelectSeq(conn.out, LAMBDA m : m.Type = "res")

\* C19: the responses written to a connection answer the request lines read
\* from it one by one (all of them while the connection is live): a response
\* has its request's id and method and carries the handler's result, or the
\* handler's error string, or "unknown method: <name>" when the method has no
\* handler; handlers are called for the requests with a registered method
\* only, so a line of another type or a line that does not decode causes no
\* call and no response
C19_OneResponsePerRequest ==
  \A c \in ConnIds :
    LET conn == conns[c]
        done == RequestsDone(conn)
        res == Responses(conn)
        known == SelectSeq(done, LAMBDA l : l.msg.Method \in Handlers)
        CallOf(i) == conn.calls[Cardinality({j \in 1 .. i :
                                               done[j].msg.Method \in Handlers})]
    IN /\ Len(res) <= Len(done)
       /\ Writable(conn) => Len(res) = Len(done)
       /\ Len(conn.calls) = Len(known)
       /\ \A k \in 1 .. Len(known) : conn.calls[k].req = known[k].msg
       /\ \A i \in 1 .. Len(res) :
            /\ res[i].ID = done[i].msg.ID
            /\ res[i].Method = done[i].msg.Method
            /\ IF done[i].msg.Method \notin Handlers
               THEN /\ res[i].Error = <<"unknown method: ", done[i].msg.Method>>
                    /\ res[i].Data = NoData
               ELSE IF CallOf(i).ret.err # <<>>
               THEN res[i].Error = CallOf(i).ret.err /\ res[i].Data = NoData
               ELSE res[i].Error = <<>> /\ res[i].Data = CallOf(i).ret.data

\* C19 witness: a live connection on which a line of type evt and then a
\* request for a method without handler were read; the only response is the
\* error for the request
C19_Witness ==
  /\ Writable(conns[1])
  /\ Len(conns[1].lines) = 2 /\ conns[1].inbox = <<>>
  /\ conns[1].lines[1].valid /\ conns[1].lines[1].msg.Type = "evt"
  /\ conns[1].lines[2].msg.Method = "LogsSubscribe"
  /\ Responses(conns[1]) =
       <<Message("res", <<"req", 2>>, "LogsSubscribe", NoData,
                 <<"unknown method: ", "LogsSubscribe">>)>>
  /\ conns[1].calls = <<>>

\* the place of a response's request among the lines of its connection
Arrival(conn, res) ==
  CHOOSE k \in 1 .. Len(conn.lines) :
    conn.lines[k].valid /\ conn.lines[k].msg.ID = res.ID

\* C20: on a connection the responses are written in the order in which
\* their requests arrived, also when a request arrives while the handler of
\* the one before is still running
C20_ResponsesInArrivalOrder ==
  \A c \in ConnIds :
    LET res == Responses(conns[c])
    IN \A i \in 1 .. Len(res) :
         /\ \E k \in 1 .. Len(conns[c].lines) :
              conns[c].lines[k].valid /\ conns[c].lines[k].msg.ID = res[i].ID
         /\ \A j \in i + 1 .. Len(res) :
              Arrival(conns[c], res[i]) < Arrival(conns[c], res[j])

\* C20 witness: two requests with registered handlers were answered, the
\* first one first
C20_Witness ==
  /\ Len(conns[1].lines) = 2
  /\ \A k \in 1 .. 2 : IsRequest(conns[1].lines[k])
  /\ Len(conns[1].calls) = 2
  /\ Len(Responses(conns[1])) = 2
  /\ Responses(conns[1])[1].ID = conns[1].lines[1].msg.ID
  /\ Responses(conns[1])[2].ID = conns[1].lines[2].msg.ID

(***************************************************************************)
(* pkg/transport/uds: the client.  Request registers a buffered channel    *)
(* under the request's id, writes the request and waits in a select;      *)
(* readLoop routes every response to the channel pending under its id and *)
(* every event to the callback.                                           *)
(***************************************************************************)
MaxCalls == 2
MaxServerMsgs == 3
Calls == 1 .. MaxCalls

\* reqCounter.Add(1): one atomic step that returns the new value
AddNothing(n) == n
Add(n) == n + 1

\* NewRequest when reqCounter.Add(1) returned n
NewRequest(method, data, n) == Message("req", <<"req", n>>, method, data, <<>>)

\* what Request returns: (Message, error)
Ret(res, err) == [resp |-> res, err |-> err]
\* a Request call that has not begun.  pc: "idle", "write" (registered in
\* pending, conn.Write not yet done), "wait" (in the select), "ret" (the
\* return value is set, the deferred delete has not run), "done".  ch: the
\* call's channel of capacity 1.  ctx: ctx.Done() is closed.
IdleCall ==
  [pc |-> "idle", msg |-> NoMessage, ch |-> <<>>, ctx |-> FALSE,
   ret |-> Ret(NoMessage, "")]

\* ch, ok := c.pending[id]: pending is a set of <<id, call>> pairs, a call
\* standing for the channel it made
lookupAny(pending, id) == {p[2] : p \in pending}
lookup(pending, id) == {p[2] : p \in {q \in pending : q[1] = id}}

ClientInit ==
  /\ processes = Nil /\ heap = Nil /\ cmds = Nil /\ ctxDone = FALSE
  /\ threads = Nil
  /\ manifest = NoManifest /\ file = MissingFile /\ resp = NoResp
  /\ bo = Nil
  /\ items = Nil /\ poll = Nil /\ server = Nil /\ conns = Nil
  /\ logs = Nil /\ dm = Nil /\ app = Nil
  /\ reqCounter = 0
  /\ \E cb \in BOOLEAN :
       client = [pending |-> {}, calls |-> [k \in Calls |-> IdleCall],
                 rl |-> [pc |-> "scan", msg |-> NoMessage, to |-> 0],
                 inbox |-> <<>>, wire |-> {}, nsrv |-> 0,
                 onEvent |-> cb, events |-> <<>>, dropped |-> <<>>,
                 done |-> FALSE, srvClosed |-> FALSE]

ClientUnchanged ==
  UNCHANGED <<supVars, manVars, bo, netVars, logs, dm, app>>
ClientOnly ==
  UNCHANGED <<supVars, manVars, bo, items, poll, server, conns, logs, dm, app>>

\* Request up to the unlock after c.pending[msg.ID] = ch
RequestBegin(k, method) ==
  LET n == Add(reqCounter)
      msg == NewRequest(method, NoData, n)
  IN /\ client.calls[k].pc = "idle"
     /\ reqCounter' = n
     /\ client' = [client EXCEPT !.calls[k].pc = "write",
                                 !.calls[k].msg = msg,
                                 !.pending = @ \cup {<<msg.ID, k>>}]
     /\ ClientOnly

\* c.conn.Write: fails once Close, or the server, has closed the connection
RequestWrite(k) ==
  /\ client.calls[k].pc = "write"
  /\ client' =
       IF client.done \/ client.srvClosed
       THEN [client EXCEPT !.calls[k].pc = "ret",
                           !.calls[k].ret = Ret(NoMessage, "write")]
       ELSE [client EXCEPT !.calls[k].pc = "wait",
                           !.wire = @ \cup {client.calls[k].msg.ID}]
  /\ ClientUnchanged

\* the select of Request: any of its ready cases
RequestSelect(k) ==
  LET c == client.calls[k]
  IN /\ c.pc = "wait"
     /\ \/ /\ c.ch # <<>>
           /\ client' =
                [client EXCEPT !.calls[k].pc = "ret",
                               !.calls[k].ch = Tail(@),
                               !.calls[k].ret =
                                 IF Head(c.ch).Error # <<>>
                                 THEN Ret(Head(c.ch), "server error")
                                 ELSE Ret(Head(c.ch), "")]
        \/ /\ c.ctx
           /\ client' = [client EXCEPT !.calls[k].pc = "ret",
                                       !.calls[k].ret = Ret(NoMessage, "ctx")]
        \/ /\ client.done
           /\ client' =
                [client EXCEPT !.calls[k].pc = "ret",
                               !.calls[k].ret =
                                 Ret(NoMessage, "connection closed")]
     /\ ClientUnchanged

\* the deferred delete(c.pending, msg.ID), and the return
RequestReturn(k) ==
  /\ client.calls[k].pc = "ret"
  /\ client' = [client EXCEPT !.calls[k].pc = "done",
                              !.pending = @ \ {<<client.calls[k].msg.ID, k>>}]
  /\ ClientUnchanged

\* the caller's context is cancelled or its deadline passes
CtxCancel(k) ==
  /\ client.calls[k].pc \in {"write", "wait"}
  /\ ~client.calls[k].ctx
  /\ client' = [client EXCEPT !.calls[k].ctx = TRUE]
  /\ ClientUnchanged

\* Client.Close
Close ==
  /\ ~client.done
  /\ client' = [client EXCEPT !.done = TRUE]
  /\ ClientUnchanged

\* the daemon writes a line: a response, with or without an error, to a
\* request it has read (once or again), or an event
ServerSend(msg) ==
  /\ ~client.done
  /\ ~client.srvClosed
  /\ client.nsrv < MaxServerMsgs
  /\ client' = [client EXCEPT !.inbox = Append(@, msg), !.nsrv = @ + 1]
  /\ ClientUnchanged

\* the daemon closes the connection (handleConn's deferred conn.Close, or
\* Shutdown)
ServerClose ==
  /\ ~client.done
  /\ ~client.srvClosed
  /\ client' = [client EXCEPT !.srvClosed = TRUE]
  /\ ClientUnchanged

\* readLoop: c.scanner.Scan() returns false, at the end of the input of a
\* connection the server closed or on the error of one closed locally; the
\* loop ends and readLoop returns
ReadEnd ==
  /\ client.rl.pc = "scan"
  /\ client.done \/ (client.srvClosed /\ client.inbox = <<>>)
  /\ client' = [client EXCEPT !.rl.pc = "end"]
  /\ ClientUnchanged

\* readLoop: one scanned line, up to the send on the pending channel
ReadScan ==
  LET msg == Head(client.inbox)
      chs == lookup(client.pending, msg.ID)
  IN /\ client.rl.pc = "scan"
     /\ ~client.done
     /\ client.inbox # <<>>
     /\ client' =
          IF msg.Type = "res"
          THEN IF chs # {}
               THEN [client EXCEPT !.inbox = Tail(@),
                                   !.rl = [pc |-> "send", msg |-> msg,
                                           to |-> CHOOSE k \in chs : TRUE]]
               ELSE [client EXCEPT !.inbox = Tail(@),
                                   !.dropped = Append(@, msg)]
          ELSE IF msg.Type = "evt" /\ client.onEvent
               THEN [client EXCEPT !.inbox = Tail(@),
                                   !.events = Append(@, msg)]
               ELSE [client EXCEPT !.inbox = Tail(@)]
     /\ ClientUnchanged

\* readLoop: ch <- msg, which waits while the channel's one slot is taken
ReadSend ==
  /\ client.rl.pc = "send"
  /\ client.calls[client.rl.to].ch = <<>>
  /\ client' = [client EXCEPT !.calls[client.rl.to].ch = <<client.rl.msg>>,
                              !.rl = [pc |-> "scan", msg |-> NoMessage,
                                      to |-> 0]]
  /\ ClientUnchanged

ClientNext ==
  \/ \E k \in Calls : RequestBegin(k, "Ping")
  \/ \E k \in Calls : RequestWrite(k)
  \/ \E k \in Calls : RequestSelect(k)
  \/ \E k \in Calls : RequestReturn(k)
  \/ \E k \in Calls : CtxCancel(k)
  \/ Close
  \/ \E id \in client.wire :
       \/ ServerSend(NewResponse(id, "Ping", NoData))
       \/ ServerSend(NewErrorResponse(id, "Ping", <<"failed">>))
  \/ ServerSend(NewEvent("items.delta", NoData, client.nsrv + 1))
  \/ ReadScan
  \/ ReadSend
  \/ ServerClose
  \/ ReadEnd

SpecClient == ClientInit /\ [][ClientNext]_vars

\* what holds of every call: its channel and its return value carry only
\* responses to its own request, an error response comes with a local
\* error, the context's error comes only from a context that is done, and a
\* call that has returned is not in pending
CallOK(k) ==
  LET c == client.calls[k]
  IN /\ \A i \in 1 .. Len(c.ch) : c.ch[i].Type = "res" /\ c.ch[i].ID = c.msg.ID
     /\ c.ret.resp # NoMessage =>
          /\ c.ret.resp.Type = "res"
          /\ c.ret.resp.ID = c.msg.ID
          /\ (c.ret.resp.Error # <<>>) <=> (c.ret.err = "server error")
     /\ c.ret.err = "ctx" => c.ctx
     /\ c.pc = "done" => \A p \in client.pending : p[1] # c.msg.ID /\ p[2] # k

\* the return values of all calls
Rets == [k \in Calls |-> client.calls[k].ret]
\* the calls that have returned
ReturnedCalls == {k \in Calls : client.calls[k].pc = "done"}

\* C21: with concurrent Request calls on one client, a call returns only the
\* response carrying the id of its own request; a response with a non-empty
\* error comes back with a local error; a call that leaves the select with
\* its context done, no response in its channel and the client not closed
\* returns the context's error, which is returned in no other case; a call
\* that has returned is no longer in the pending map, so a response scanned
\* for it afterwards is dropped and changes no call; an event goes to the
\* callback's list and to no call.
C21_RequestCorrelation ==
  [][/\ \A k \in Calls : CallOK(k)'
     /\ \A k \in Calls :
          /\ client.calls[k].pc = "wait" /\ client'.calls[k].pc = "ret"
          /\ client.calls[k].ctx /\ client.calls[k].ch = <<>> /\ ~client.done
          => client'.calls[k].ret = Ret(NoMessage, "ctx")
     /\ /\ client.inbox # <<>> /\ client'.inbox = Tail(client.inbox)
        /\ Head(client.inbox).Type = "res"
        /\ \E k \in ReturnedCalls : client.calls[k].msg.ID = Head(client.inbox).ID
        => /\ client'.calls = client.calls
           /\ client'.dropped = Append(client.dropped, Head(client.inbox))
           /\ client'.rl = client.rl
     /\ /\ client.inbox # <<>> /\ client'.inbox = Tail(client.inbox)
        /\ Head(client.inbox).Type = "evt"
        => /\ client'.calls = client.calls
           /\ client'.rl = client.rl
           /\ client'.events =
                IF client.onEvent THEN Append(client.events, Head(client.inbox))
                ELSE client.events
     /\ \A i \in 1 .. Len(client'.events) : client'.events[i].Type = "evt"
    ]_vars

\* two calls have returned, one with the error response to its own request
\* and one with its context's error; the response that came for the second
\* after its return was dropped, and an event reached the callback
C21_Witness ==
  /\ ReturnedCalls = Calls
  /\ \E k \in Calls :
       /\ client.calls[k].ret.err = "server error"
       /\ client.calls[k].ret.resp.ID = client.calls[k].msg.ID
  /\ \E k \in Calls :
       /\ client.calls[k].ret.err = "ctx"
       /\ \E i \in 1 .. Len(client.dropped) :
            client.dropped[i].ID = client.calls[k].msg.ID
  /\ client.events # <<>>

(***************************************************************************)
(* uds.NewRequest and uds.NewEvent called by the goroutines of one        *)
(* process: each call adds one to reqCounter atomically and then formats  *)
(* the value it got into the id of its message.                           *)
(***************************************************************************)
MaxIds == 4
MaxCallers == 2
Callers == 1 .. MaxCallers

IdsInit ==
  /\ processes = Nil /\ heap = Nil /\ cmds = Nil /\ ctxDone = FALSE
  /\ threads = Nil
  /\ manifest = NoManifest /\ file = MissingFile /\ resp = NoResp
  /\ items = Nil /\ poll = Nil /\ server = Nil /\ conns = Nil
  /\ client = Nil /\ logs = Nil /\ dm = Nil /\ app = Nil
  /\ reqCounter = 0
  /\ bo = [callers |-> [g \in Callers |-> [pc |-> "idle", kind |-> "", n |-> 0]],
           adds |-> <<>>, made |-> <<>>]

\* reqCounter.Add(1) of a call of NewRequest (kind "req") or NewEvent ("evt")
CallAdd(g, kind) ==
  LET n == Add(reqCounter)
  IN /\ bo.callers[g].pc = "idle"
     /\ reqCounter < MaxIds
     /\ reqCounter' = n
     /\ bo' = [bo EXCEPT !.callers[g] = [pc |-> "fmt", kind |-> kind, n |-> n],
                         !.adds = Append(@, n)]
     /\ UNCHANGED <<supVars, manVars, items, poll, server, conns, extVars>>

\* the rest of the call: the message with the formatted id is returned
CallReturn(g) ==
  LET c == bo.callers[g]
      msg == IF c.kind = "req" THEN NewRequest("Ping", NoData, c.n)
             ELSE NewEvent("items.delta", NoData, c.n)
  IN /\ c.pc = "fmt"
     /\ bo' = [bo EXCEPT !.callers[g] = [pc |-> "idle", kind |-> "", n |-> 0],
                         !.made = Append(@, [by |-> g, msg |-> msg])]
     /\ UNCHANGED <<supVars, manVars, netVars, extVars>>

IdsNext ==
  \/ \E g \in Callers, kind \in {"req", "evt"} : CallAdd(g, kind)
  \/ \E g \in Callers : CallReturn(g)

SpecIds == IdsInit /\ [][IdsNext]_vars

\* the counter values in the ids that goroutine g has generated, in its order
MadeBy(g) ==
  LET mine == SelectSeq(bo.made, LAMBDA e : e.by = g)
  IN [i \in 1 .. Len(mine) |-> mine[i].msg.ID[2]]
Increasing(s) == \A i, j \in 1 .. Len(s) : i < j => s[i] < s[j]

\* C22: under every interleaving of concurrent NewRequest and NewEvent calls
\* in one process no two generated messages carry the same id, not even the
\* same counter value, and the counter values are strictly increasing, in
\* the order of the atomic additions and in the order of each goroutine's
\* own calls.
C22_IdsUnique ==
  /\ \A i, j \in 1 .. Len(bo.made) :
       i # j => /\ bo.made[i].msg.ID # bo.made[j].msg.ID
                /\ bo.made[i].msg.ID[2] # bo.made[j].msg.ID[2]
  /\ \A i \in 1 .. Len(bo.made) :
       bo.made[i].msg.ID[1] = bo.made[i].msg.Type
  /\ Increasing(bo.adds)
  /\ \A g \in Callers : Increasing(MadeBy(g))

\* two goroutines were between the addition and the return at once, the
\* later addition returned first, and both a request and an event were made
C22_Witness ==
  /\ Len(bo.made) >= 3
  /\ bo.made[1].msg.ID[2] > bo.made[2].msg.ID[2]
  /\ bo.made[1].by # bo.made[2].by
  /\ \E i, j \in 1 .. Len(bo.made) :
       bo.made[i].msg.Type = "req" /\ bo.made[j].msg.Type = "evt"

(***************************************************************************)
(* Action dispatch.  An item id is the text kind:provider:native_id; a    *)
(* text is modelled as the sequence of its pieces, ":" being a piece.     *)
(***************************************************************************)
\* core.ItemID: fmt.Sprintf("%s:%s:%s", kind, provider, nativeID)
ItemID(kind, provider, nativeID) ==
  kind \o <<":">> \o provider \o <<":">> \o nativeID

\* the index of the first ":" of a text at or after position i, 0 if none
RECURSIVE Colon(_, _)
Colon(s, i) ==
  IF i > Len(s) THEN 0 ELSE IF s[i] = ":" THEN i ELSE Colon(s, i + 1)

\* a split on every ":" instead: an error unless exactly 3 parts
ParseItemIDAll(id) ==
  LET c1 == Colon(id, 1)
      c2 == IF c1 = 0 THEN 0 ELSE Colon(id, c1 + 1)
      c3 == IF c2 = 0 THEN 0 ELSE Colon(id, c2 + 1)
  IN IF c2 = 0 \/ c3 # 0
     THEN [kind |-> <<>>, provider |-> <<>>, nativeID |-> <<>>,
           err |-> <<"invalid item ID ", id>>]
     ELSE [kind |-> SubSeq(id, 1, c1 - 1),
           provider |-> SubSeq(id, c1 + 1, c2 - 1),
           nativeID |-> SubSeq(id, c2 + 1, Len(id)), err |-> <<>>]

\* core.ParseItemID: strings.SplitN(id, ":", 3), an error unless 3 parts
ParseItemID(id) ==
  LET c1 == Colon(id, 1)
      c2 == IF c1 = 0 THEN 0 ELSE Colon(id, c1 + 1)
  IN IF c2 = 0
     THEN [kind |-> <<>>, provider |-> <<>>, nativeID |-> <<>>,
           err |-> <<"invalid item ID ", id>>]
     ELSE [kind |-> SubSeq(id, 1, c1 - 1),
           provider |-> SubSeq(id, c1 + 1, c2 - 1),
           nativeID |-> SubSeq(id, c2 + 1, Len(id)), err |-> <<>>]

\* a provider: the value of Name(), and the kind and provider segments of
\* the ids that its List builds with core.ItemID
Provider(name, kind, segment) ==
  [Name |-> <<name>>, Kind |-> <<kind>>, Segment |-> <<segment>>]
SystemdProvider == Provider("systemd", "systemd", "system")
ExecProvider == Provider("exec", "exec", "supervisor")
DockerProvider == Provider("docker", "docker", "docker")
ProcfsProvider == Provider("procfs", "process", "procfs")

\* the ids of the items that provider p lists, for the native ids given
ListedIds(p, natives) == {ItemID(p.Kind, p.Segment, n) : n \in natives}

\* the position in providers of the first one that Name() = kind, 0 if none
RECURSIVE FirstNamed(_, _, _)
FirstNamed(providers, kind, i) ==
  IF i > Len(providers) THEN 0
  ELSE IF providers[i].Name = kind THEN i
  ELSE FirstNamed(providers, kind, i + 1)

\* Daemon.handleAction: the provider whose Action is called, if any, and
\* the error returned otherwise (perr is what p.Action returns)
handleAction(providers, itemID, perr) ==
  LET parsed == ParseItemID(itemID)
      i == FirstNamed(providers, parsed.kind, 1)
  IN IF parsed.err # <<>> THEN [to |-> <<>>, err |-> parsed.err]
     ELSE IF i # 0 THEN [to |-> providers[i].Name, err |-> perr]
     ELSE [to |-> <<>>, err |-> <<"no provider for kind ", parsed.kind>>]

\* d.providers as main registers them, with systemd or without
Registrations ==
  {<<SystemdProvider, ExecProvider, DockerProvider, ProcfsProvider>>,
   <<ExecProvider, DockerProvider, ProcfsProvider>>}
Natives == {<<"a">>, <<"a", ":", "b">>, <<"1">>}
ActionIds ==
  UNION {ListedIds(p, Natives) :
           p \in {SystemdProvider, ExecProvider, DockerProvider, ProcfsProvider}}
  \cup {ItemID(<<"log">>, <<"file">>, <<"a">>), <<"exec">>, <<"exec", ":", "a">>}

ActionInit ==
  /\ processes = Nil /\ heap = Nil /\ cmds = Nil /\ ctxDone = FALSE
  /\ threads = Nil
  /\ manifest = NoManifest /\ file = MissingFile /\ resp = NoResp
  /\ items = Nil /\ poll = Nil /\ server = Nil /\ conns = Nil
  /\ client = Nil /\ logs = Nil /\ dm = Nil /\ app = Nil
  /\ reqCounter = 0
  /\ \E ps \in Registrations, id \in ActionIds,
        perr \in {<<>>, <<"unsupported action">>} :
       bo = [providers |-> ps, id |-> id, perr |-> perr,
             out |-> [to |-> <<"?">>, err |-> <<>>]]

ActionApply ==
  /\ bo.out.to = <<"?">>
  /\ bo' = [bo EXCEPT !.out = handleAction(bo.providers, bo.id, bo.perr)]
  /\ UNCHANGED <<supVars, manVars, netVars, extVars>>

ActionNext == ActionApply

SpecAction == ActionInit /\ [][ActionNext]_vars

\* the registered providers that list the item id of the harness
Listing ==
  {i \in 1 .. Len(bo.providers) : bo.id \in ListedIds(bo.providers[i], Natives)}

\* C23: for every item id that a registered provider lists, Action is
\* dispatched to the provider whose name equals the id's kind segment, and
\* that provider is the one that listed the item; an id whose kind has no
\* provider yields an error.
C23_DispatchByKind ==
  bo.out.to # <<"?">> =>
    /\ \A i \in Listing :
         /\ bo.out.to = bo.providers[i].Name
         /\ bo.out.to = ParseItemID(bo.id).kind
    /\ (ParseItemID(bo.id).err = <<>> /\
        \A i \in 1 .. Len(bo.providers) :
          bo.providers[i].Name # ParseItemID(bo.id).kind)
       => bo.out.to = <<>> /\ bo.out.err # <<>>

(***************************************************************************)
(* Shutdown of the supervisor.                                             *)
(***************************************************************************)
\* a stopProcess on child c has waited its 10 s and sent SIGKILL
GraceOver(c) ==
  \E t \in Threads : threads[t].cmd = c /\ threads[t].pc = "killed"

\* a SIGKILL reaches child c in this step
KillNow(c) ==
  \/ cmds'[c].ctxKill /\ ~cmds[c].ctxKill
  \/ GraceOver(c)' /\ ~GraceOver(c)

\* C24: on StopAll every running child is stopped by the normal protocol:
\* SIGTERM to its process group first, SIGKILL only when it has not exited
\* within the 10 s grace period; no child is killed before it was sent
\* SIGTERM.
C24_StopAllTermFirst ==
  [][\A c \in DOMAIN cmds :
       KillNow(c) => TermSent(c) /\ GraceOver(c)']_vars

(***************************************************************************)
(* Logs of a supervised process: the two logBuffers (stdout, stderr) of   *)
(* one SupervisedProcess, their subscriber channels, and the goroutines   *)
(* that Supervisor.LogChannel starts to merge them.  A channel is the     *)
(* sequence of the lines it holds; a line is named by its stream and its  *)
(* number in the stream.                                                  *)
(***************************************************************************)
RingSize == 1000
SubBuffer == 100
MergedBuffer == 100
Streams == {"stdout", "stderr"}
LogLine(stream, n) == [Stream |-> stream, Line |-> n]

\* b.lines = b.lines[len(b.lines)-1000:] when longer than 1000
KeepAll(lines) == lines
KeepLast(lines) ==
  IF Len(lines) > RingSize
  THEN SubSeq(lines, Len(lines) - RingSize + 1, Len(lines))
  ELSE lines

\* select { case ch <- entry: default: } on a channel of capacity 100
sendAlways(q, entry) == Append(q, entry)
send(q, entry) == IF Len(q) < SubBuffer THEN Append(q, entry) ELSE q

\* logBuffer.write of the next line of a stream
write(L, stream) ==
  LET entry == LogLine(stream, L.w[stream] + 1)
      b == L.buf[stream]
  IN [L EXCEPT
        !.w[stream] = @ + 1,
        !.buf[stream].lines = KeepLast(Append(b.lines, entry)),
        !.ch = [c \in DOMAIN L.ch |->
                  IF \E i \in DOMAIN b.subs : b.subs[i] = c
                  THEN send(L.ch[c], entry) ELSE L.ch[c]]]

\* logBuffer.subscribe on both buffers and the merged channel of LogChannel,
\* with the goroutine it starts: channels n+1 (merged), n+2, n+3
LogChannel(L) ==
  LET n == Len(L.ch)
  IN [L EXCEPT
        !.ch = @ \o <<<<>>, <<>>, <<>>>>,
        !.buf["stdout"].subs = Append(@, n + 2),
        !.buf["stderr"].subs = Append(@, n + 3),
        !.readers = Append(@, [stdout |-> n + 2, stderr |-> n + 3,
                               merged |-> n + 1, hold |-> <<>>]),
        !.got = Append(@, <<>>),
        !.rets = Append(@, [ch |-> n + 1, nreaders |-> Len(L.readers) + 1])]

\* the goroutine of LogChannel receives a line from one of its two channels
take(L, r, stream) ==
  LET c == L.readers[r][stream]
  IN [L EXCEPT !.readers[r].hold = <<Head(L.ch[c])>>, !.ch[c] = Tail(@)]
CanTake(L, r, stream) ==
  L.readers[r].hold = <<>> /\ L.ch[L.readers[r][stream]] # <<>>

\* merged <- l
put(L, r) ==
  [L EXCEPT !.ch[L.readers[r].merged] = Append(@, L.readers[r].hold[1]),
            !.readers[r].hold = <<>>]
CanPut(L, r) ==
  L.readers[r].hold # <<>> /\ Len(L.ch[L.readers[r].merged]) < MergedBuffer

DockerIds == {"docker:docker:a", "docker:docker:b"}

\* a process nothing was written for, with what the run may still do:
\* writes per stream, Subscribe calls, reads of the consumers
NewLogs(wout, werr, subs, reads) ==
  [buf |-> [s \in Streams |-> [lines |-> <<>>, subs |-> <<>>]],
   w |-> [s \in Streams |-> 0],
   ch |-> <<>>, readers |-> <<>>, got |-> <<>>, rets |-> <<>>,
   dsubs |-> {}, drets |-> <<>>, dmade |-> 0,
   dreaders |-> [id \in DockerIds |-> 0],
   left |-> [stdout |-> wout, stderr |-> werr], subsLeft |-> subs,
   readsLeft |-> reads, dockerLeft |-> 0]

\* n writes to a stream; n lines moved on by reader r as far as it can
RECURSIVE WriteN(_, _, _)
WriteN(L, stream, n) ==
  LET next == write(L, stream)
  IN IF n = 0 \/ next = L THEN L ELSE WriteN(next, stream, n - 1)
forward(L, r) ==
  IF CanPut(L, r) THEN put(L, r)
  ELSE IF CanTake(L, r, "stdout") THEN put(take(L, r, "stdout"), r)
  ELSE L
RECURSIVE ForwardN(_, _, _)
ForwardN(L, r, n) ==
  LET next == forward(L, r)
  IN IF n = 0 \/ next = L THEN L ELSE ForwardN(next, r, n - 1)

MaxRingWrites == 1100
MaxLogWrites == 2
MaxSubscribes == 2
MaxReads == 2
MaxDockerCalls == 3

\* the process at the start of a run: nothing written and no subscriber; a
\* subscriber whose stdout channel lacks one line to be full; a subscriber
\* whose consumer never reads, with the merged channel full and the
\* goroutine of LogChannel waiting to send; the docker provider alone
LogStarts ==
  {NewLogs(MaxRingWrites, 1, 0, 0),
   NewLogs(MaxLogWrites, 1, MaxSubscribes, MaxReads),
   WriteN(LogChannel(NewLogs(MaxLogWrites, 1, 0, MaxReads)), "stdout",
          SubBuffer - 1),
   take(WriteN(ForwardN(WriteN(LogChannel(NewLogs(MaxLogWrites, 1, 0, 0)),
                                   "stdout", SubBuffer),
                            1, MergedBuffer),
                   "stdout", SubBuffer),
        1, "stdout"),
   [NewLogs(0, 0, 0, 0) EXCEPT !.dockerLeft = MaxDockerCalls]}

LogInit ==
  /\ processes = Nil /\ heap = Nil /\ cmds = Nil /\ ctxDone = FALSE
  /\ threads = Nil
  /\ manifest = NoManifest /\ file = MissingFile /\ resp = NoResp
  /\ bo = Nil
  /\ items = Nil /\ poll = Nil /\ server = Nil /\ conns = Nil
  /\ client = Nil /\ dm = Nil /\ app = Nil
  /\ reqCounter = 0
  /\ logs \in LogStarts

LogOnly == UNCHANGED <<supVars, manVars, bo, netVars, client, dm, app>>

\* the child prints a line: scanLines calls logBuffer.write
LogWrite(stream) ==
  /\ logs.left[stream] > 0
  /\ logs' = [write(logs, stream) EXCEPT !.left[stream] = @ - 1]
  /\ LogOnly

\* exec.Provider.Subscribe: Supervisor.LogChannel
ExecSubscribe ==
  /\ logs.subsLeft > 0
  /\ logs' = [LogChannel(logs) EXCEPT !.subsLeft = @ - 1]
  /\ LogOnly

\* exec.Provider.Unsubscribe: returns nil and changes nothing; rets, the
\* record of the Subscribe calls since the last Unsubscribe, starts anew
ExecUnsubscribe ==
  /\ logs.rets # <<>>
  /\ logs' = [logs EXCEPT !.rets = <<>>]
  /\ LogOnly

ReaderTake(r, stream) ==
  /\ CanTake(logs, r, stream)
  /\ logs' = take(logs, r, stream)
  /\ LogOnly

ReaderPut(r) ==
  /\ CanPut(logs, r)
  /\ logs' = put(logs, r)
  /\ LogOnly

\* the caller of Subscribe receives a line from the channel it was given
Consume(r) ==
  LET c == logs.readers[r].merged
  IN /\ logs.readsLeft > 0
     /\ logs.ch[c] # <<>>
     /\ logs' = [logs EXCEPT !.ch[c] = Tail(@),
                             !.got[r] = Append(@, Head(logs.ch[c])),
                             !.readsLeft = @ - 1]
     /\ LogOnly

\* docker.Provider.Subscribe; found: findContainerID and ContainerLogs
\* succeed.  A subscription is <<item id, channel>>, the channels being
\* numbered as they are made; dreaders counts the reading goroutines started
\* for an id.
DockerSubscribe(id, found) ==
  LET had == {s \in logs.dsubs : s[1] = id}
      n == logs.dmade + 1
  IN /\ logs.dockerLeft > 0
     /\ logs' =
          IF had # {}
          THEN [logs EXCEPT
                  !.dockerLeft = @ - 1,
                  !.drets = Append(@, [id |-> id, ch |-> (CHOOSE s \in had : TRUE)[2],
                                       nreaders |-> logs.dreaders[id]])]
          ELSE IF found
          THEN [logs EXCEPT
                  !.dockerLeft = @ - 1,
                  !.dsubs = @ \cup {<<id, n>>},
                  !.dmade = n,
                  !.dreaders[id] = @ + 1,
                  !.drets = Append(@, [id |-> id, ch |-> n,
                                       nreaders |-> logs.dreaders[id] + 1])]
          ELSE [logs EXCEPT !.dockerLeft = @ - 1]
     /\ LogOnly

\* docker.Provider.Unsubscribe
DockerUnsubscribe(id) ==
  /\ logs.dockerLeft > 0
  /\ logs' = [logs EXCEPT
                !.dockerLeft = @ - 1,
                !.dsubs = {s \in @ : s[1] # id},
                !.drets = SelectSeq(@, LAMBDA e : e.id # id)]
  /\ LogOnly

LogNext ==
  \/ \E stream \in Streams : LogWrite(stream)
  \/ ExecSubscribe
  \/ ExecUnsubscribe
  \/ \E r \in DOMAIN logs.readers, stream \in Streams : ReaderTake(r, stream)
  \/ \E r \in DOMAIN logs.readers : ReaderPut(r)
  \/ \E r \in DOMAIN logs.readers : Consume(r)
  \/ \E id \in DockerIds, found \in BOOLEAN : DockerSubscribe(id, found)
  \/ \E id \in DockerIds : DockerUnsubscribe(id)

SpecLog == LogInit /\ [][LogNext]_vars

\* C25: for every log provider, Subscribe calls for one item id with no
\* Unsubscribe between them return the same channel and start no further
\* reader (here the supervised-process provider, whose calls are all for the
\* one process, and the container provider).
C25_SubscribeIdempotent ==
  /\ \A i, j \in DOMAIN logs.rets :
       /\ logs.rets[i].ch = logs.rets[j].ch
       /\ logs.rets[i].nreaders = logs.rets[j].nreaders
  /\ \A i, j \in DOMAIN logs.drets :
       logs.drets[i].id = logs.drets[j].id =>
         /\ logs.drets[i].ch = logs.drets[j].ch
         /\ logs.drets[i].nreaders = logs.drets[j].nreaders

\* the last n elements of a sequence
LastOf(s, n) == SubSeq(s, Len(s) - n + 1, Len(s))
\* what was written to a stream, in the order of the writes
WrittenTo(stream) == [i \in 1 .. logs.w[stream] |-> LogLine(stream, i)]

\* C26: a stream's log ring never holds more than 1000 lines and always
\* holds the most recent lines in the order they were written: after k
\* writes, the last min(k, 1000) of them.
C26_RingKeepsLast ==
  \A s \in Streams :
    LET k == logs.w[s]
        n == IF k < RingSize THEN k ELSE RingSize
    IN /\ Len(logs.buf[s].lines) <= RingSize
       /\ logs.buf[s].lines = LastOf(WrittenTo(s), n)

\* 1100 lines were written to stdout and the ring holds lines 101 to 1100
C26_Witness ==
  /\ logs.w["stdout"] = RingSize + 100
  /\ Len(logs.buf["stdout"].lines) = RingSize
  /\ logs.buf["stdout"].lines[1] = LogLine("stdout", 101)
  /\ logs.buf["stdout"].lines[RingSize] = LogLine("stdout", RingSize + 100)

\* the lines of a stream that subscriber r has received or has on the way,
\* oldest first: read by the consumer, in the merged channel, held by the
\* goroutine of LogChannel, in the stream's subscriber channel
Seen(r, stream) ==
  LET rd == logs.readers[r]
  IN SelectSeq(logs.got[r] \o logs.ch[rd.merged] \o rd.hold,
               LAMBDA e : e.Stream = stream)
     \o logs.ch[rd[stream]]
\* the subscriber channels of a stream's buffer
SubsOf(stream) ==
  {logs.buf[stream].subs[i] : i \in DOMAIN logs.buf[stream].subs}

\* C27: a write never waits for a subscriber: whenever the child may print,
\* whatever the subscribers' channels hold (even with a merged channel that
\* is full because its consumer never reads), the write can be taken, it
\* appends the line to the ring, puts it into every subscriber channel that
\* has room and leaves a full one as it is, and touches nothing else; every
\* subscriber sees the lines of one stream in the stream's order.
C27_WriteNeverBlocks ==
  [][\A s \in Streams :
       /\ logs.left[s] > 0 => ENABLED LogWrite(s)
       /\ logs'.w[s] = logs.w[s] + 1 =>
            LET entry == LogLine(s, logs.w[s] + 1)
            IN /\ logs'.buf[s].lines[Len(logs'.buf[s].lines)] = entry
               /\ logs'.buf[s].subs = logs.buf[s].subs
               /\ logs'.readers = logs.readers /\ logs'.got = logs.got
               /\ \A c \in DOMAIN logs.ch :
                    logs'.ch[c] =
                      IF c \in SubsOf(s) /\ Len(logs.ch[c]) < SubBuffer
                      THEN Append(logs.ch[c], entry)
                      ELSE logs.ch[c]
       /\ \A r \in DOMAIN logs'.readers :
            \A seen \in {Seen(r, s)'} :
              \A i \in 1 .. Len(seen) - 1 : seen[i].Line < seen[i + 1].Line
    ]_vars

\* a consumer has read nothing and its merged channel is full, the goroutine
\* of LogChannel waits with a line in hand, the stdout subscriber channel is
\* full and the last line written was dropped for it, and is in the ring
C27_Witness ==
  \E r \in DOMAIN logs.readers :
    LET rd == logs.readers[r]
        last == LogLine("stdout", logs.w["stdout"])
    IN /\ logs.got[r] = <<>>
       /\ Len(logs.ch[rd.merged]) = MergedBuffer
       /\ rd.hold # <<>>
       /\ Len(logs.ch[rd.stdout]) = SubBuffer
       /\ logs.ch[rd.stdout][SubBuffer] # last
       /\ logs.buf["stdout"].lines[Len(logs.buf["stdout"].lines)] = last

(***************************************************************************)
(* computeScore over items, manifests and rule lists.                      *)
(***************************************************************************)
MaxEvaluations == 2

\* the rules the manifests of the harness draw from: by kind, by group, by
\* both, and with a key that matchesRule does not know
ScoreRules ==
  {[Match |-> [k \in {"kind"} |-> "exec"], Score |-> 20],
   [Match |-> [k \in {"group"} |-> "web"], Score |-> 7],
   [Match |-> [k \in {"kind", "group"} |-> IF k = "kind" THEN "process" ELSE "web"],
    Score |-> 0 - 3],
   [Match |-> [k \in {"name"} |-> "x"], Score |-> 1]}

ScoreInit ==
  /\ processes = Nil /\ heap = Nil /\ cmds = Nil /\ ctxDone = FALSE
  /\ threads = Nil
  /\ manifest = NoManifest /\ file = MissingFile /\ resp = NoResp
  /\ items = Nil /\ poll = Nil /\ server = Nil /\ conns = Nil
  /\ client = Nil /\ logs = Nil /\ dm = Nil /\ app = Nil
  /\ reqCounter = 0
  /\ \E kind \in {"exec", "process"}, group \in {"", "web"},
        cpu \in {CPUBonusOver - 1, CPUBonusOver, CPUBonusOver + 1},
        mem \in {MemBonusOver, MemBonusOver + 1},
        its \in {PutItem(NoItems, "a", ExecItem("run", <<>>, "")),
                 PutItem(NoItems, "n", SystemdItem("nginx.service")),
                 PutItem(PutItem(NoItems, "a", ExecItem("run", <<>>, "")),
                         "b", ExecItem("run", <<>>, ""))},
        rules \in UNION {Orders(S) : S \in {T \in SUBSET ScoreRules : Cardinality(T) <= 3}},
        loaded \in BOOLEAN :
       /\ ~loaded => rules = <<>> /\ "n" \in DOMAIN its
       /\ bo = [item |-> [CoreItem("x:y:z", kind, StatusRunning) EXCEPT
                            !.Group = group, !.CPUPct = cpu, !.MemBytes = mem],
                m |-> IF loaded
                      THEN [NoManifest EXCEPT !.loaded = TRUE, !.Version = 1,
                                              !.Items = its, !.Rules = rules]
                      ELSE NoManifest,
                outs |-> <<>>]

\* one evaluation of computeScore
ScoreApply ==
  /\ Len(bo.outs) < MaxEvaluations
  /\ bo' = [bo EXCEPT !.outs = Append(@, computeScore(bo.item, bo.m))]
  /\ UNCHANGED <<supVars, manVars, netVars, extVars>>

ScoreNext == ScoreApply

SpecScore == ScoreInit /\ [][ScoreNext]_vars

\* the sum of the scores of the rules at the positions S of a rule list
RECURSIVE SumAt(_, _)
SumAt(rules, S) ==
  IF S = {} THEN 0
  ELSE LET i == CHOOSE j \in S : TRUE
       IN rules[i].Score + SumAt(rules, S \ {i})

\* a rule all of whose match keys kind and group hold on the item
Holds(item, rule) ==
  /\ "kind" \in DOMAIN rule.Match => rule.Match["kind"] = item.Kind
  /\ "group" \in DOMAIN rule.Match => rule.Match["group"] = item.Group

\* the score as the claim states it
ClaimedScore(item, m) ==
  (IF m.loaded /\ \E n \in DOMAIN m.Items : m.Items[n].Kind = item.Kind
   THEN 60 ELSE 0)
  + (IF m.loaded
     THEN SumAt(m.Rules, {i \in DOMAIN m.Rules : Holds(item, m.Rules[i])})
     ELSE 0)
  + (IF item.CPUPct > 50 THEN 10 ELSE 0)
  + (IF item.MemBytes > 104857600 THEN 5 ELSE 0)

\* C28: an item's score is 60 if a manifest item has its kind, plus the score
\* of every rule whose match keys all hold on it, plus 10 if its cpu is
\* strictly above 5.0 percent, plus 5 if its memory is above 100 * 2^20 bytes;
\* every permutation of the rule list gives the same score, and so does every
\* repeated evaluation.
C28_ScoreFormula ==
  \A i \in DOMAIN bo.outs :
    /\ bo.outs[i] = ClaimedScore(bo.item, bo.m)
    /\ \A perm \in Orders({bo.m.Rules[j] : j \in DOMAIN bo.m.Rules}) :
         computeScore(bo.item, [bo.m EXCEPT !.Rules = perm]) = bo.outs[i]
    /\ bo.outs[i] = bo.outs[1]

\* an exec item in group web at exactly 5.0 percent cpu and above the memory
\* threshold, scored twice against a manifest with two exec items and three
\* rules of which two match: 60 + 20 + 7 + 5
C28_Witness ==
  /\ Len(bo.outs) = 2
  /\ bo.item.Kind = "exec" /\ bo.item.Group = "web"
  /\ bo.item.CPUPct = CPUBonusOver /\ bo.item.MemBytes > MemBonusOver
  /\ Cardinality(DOMAIN bo.m.Items) = 2
  /\ Len(bo.m.Rules) = 3
  /\ bo.m.Rules[1].Score = 0 - 3 /\ bo.m.Rules[3].Score = 20
  /\ bo.outs = <<92, 92>>

(***************************************************************************)
(* The manifest round trip: Parse, Save, Load.                             *)
(***************************************************************************)
\* the documents of the harness: a project, a root that may refer to the
\* project, an exec item whose dir may refer to either, and with or without
\* a log item whose file is under the root
RoundDocs ==
  {Marshal([NoManifest EXCEPT
              !.Version = 1, !.Project = project, !.Root = root,
              !.Items = IF withLog
                        THEN PutItem(PutItem(NoItems, "serve", ExecItem("run", dir, "")),
                                     "log", LogItem(<<<<"${root}", "/x.log">>>>))
                        ELSE PutItem(NoItems, "serve", ExecItem("run", dir, ""))]) :
     project \in {<<>>, <<"testproj">>},
     root \in {<<>>, <<"/app">>, <<"/opt/", "${project}">>},
     dir \in {<<>>, <<"/app">>, <<"${root}">>, <<"${root}", "/sub">>,
              <<"${project}">>, <<"${other}">>},
     withLog \in BOOLEAN}

RoundInit ==
  /\ processes = Nil /\ heap = Nil /\ cmds = Nil /\ ctxDone = FALSE
  /\ threads = Nil
  /\ manifest = NoManifest /\ file = MissingFile /\ resp = NoResp
  /\ items = Nil /\ poll = Nil /\ server = Nil /\ conns = Nil
  /\ client = Nil /\ logs = Nil /\ dm = Nil /\ app = Nil
  /\ reqCounter = 0
  /\ \E doc \in RoundDocs :
       bo = [doc |-> doc, done |-> FALSE, first |-> NoManifest,
             second |-> NoManifest]

\* Parse of the document, Save of the result, Load of the saved file
RoundApply ==
  /\ ~bo.done
  /\ bo' = [bo EXCEPT !.done = TRUE,
                      !.first = Parse(bo.doc),
                      !.second = Load(ManifestPath, SavedFile(Parse(bo.doc)))]
  /\ UNCHANGED <<supVars, manVars, netVars, extVars>>

RoundNext == RoundApply

SpecRound == RoundInit /\ [][RoundNext]_vars

\* C29: for every manifest document, parse, serialize, parse gives a
\* document equal field by field to the result of the first parse, also when
\* the root holds a ${project} reference that item fields inherit through
\* ${root}: interpolation is not applied again to interpolated values.
C29_RoundTrip ==
  bo.done => Marshal(bo.second) = Marshal(bo.first)

(***************************************************************************)
(* Compose auto-import (pkg/providers/docker and main).  A container name  *)
(* is the sequence of the texts it is formatted from, <<>> being "".       *)
(***************************************************************************)
\* docker.AutoImport: the containerDefs for the services not in existing
AutoImport(services, existing, project) ==
  {[Name |-> name,
    Container |-> IF services[name].ContainerName = "" /\ project # ""
                  THEN <<project, "-", name, "-1">>
                  ELSE IF services[name].ContainerName = "" THEN <<>>
                  ELSE <<services[name].ContainerName>>,
    Service |-> name] : name \in DOMAIN services \ existing}

\* main: existing holds the names of the manifest's docker items
ExistingOf(its) == {name \in DOMAIN its : its[name].Kind = "docker"}

ImportNames == {"web", "db"}
ServiceNames == {"web", "db", "cache"}

ImportInit ==
  /\ processes = Nil /\ heap = Nil /\ cmds = Nil /\ ctxDone = FALSE
  /\ threads = Nil
  /\ manifest = NoManifest /\ file = MissingFile /\ resp = NoResp
  /\ items = Nil /\ poll = Nil /\ server = Nil /\ conns = Nil
  /\ client = Nil /\ logs = Nil /\ dm = Nil /\ app = Nil
  /\ reqCounter = 0
  /\ \E names \in SUBSET ImportNames \ {{}}, snames \in SUBSET ServiceNames,
        project \in {"", "app"} :
       \E its \in [names -> {ExecItem("run", <<>>, ""), DockerItem("c0")}],
          services \in [snames -> {[ContainerName |-> ""], [ContainerName |-> "c1"]}] :
         bo = [its |-> its, services |-> services, project |-> project,
               done |-> FALSE, defs |-> {}]

\* main, lines 565-581, for a compose file that was parsed
ImportApply ==
  /\ ~bo.done
  /\ bo' = [bo EXCEPT !.done = TRUE,
                      !.defs = AutoImport(bo.services, ExistingOf(bo.its),
                                          bo.project)]
  /\ UNCHANGED <<supVars, manVars, netVars, extVars>>

ImportNext == ImportApply

SpecImport == ImportInit /\ [][ImportNext]_vars

\* C30: auto-import adds a container only for the compose services whose
\* name is the name of no manifest item, of whatever kind, and every
\* imported service gets its explicit container_name, or else
\* "<project>-<service>-1".
C30_ImportOnlyAbsent ==
  bo.done =>
    \A d \in bo.defs :
      /\ d.Name \in DOMAIN bo.services
      /\ d.Name \notin DOMAIN bo.its
      /\ d.Container =
           IF bo.services[d.Name].ContainerName # ""
           THEN <<bo.services[d.Name].ContainerName>>
           ELSE <<bo.project, "-", d.Name, "-1">>

(***************************************************************************)
(* The item id codec over all short texts.  A text is the sequence of its  *)
(* characters, of which ":" is the delimiter.                              *)
(***************************************************************************)
MaxIdLen == 4
MaxNativeLen == 3

\* the texts of at most n characters over an alphabet
TextsOver(alphabet, n) == UNION {[1 .. k -> alphabet] : k \in 0 .. n}

\* the number of ":" of a text
RECURSIVE Colons(_)
Colons(s) ==
  IF s = <<>> THEN 0 ELSE (IF Head(s) = ":" THEN 1 ELSE 0) + Colons(Tail(s))

CodecInit ==
  /\ processes = Nil /\ heap = Nil /\ cmds = Nil /\ ctxDone = FALSE
  /\ threads = Nil
  /\ manifest = NoManifest /\ file = MissingFile /\ resp = NoResp
  /\ items = Nil /\ poll = Nil /\ server = Nil /\ conns = Nil
  /\ client = Nil /\ logs = Nil /\ dm = Nil /\ app = Nil
  /\ reqCounter = 0
  /\ \/ \E k \in TextsOver({"e", "x"}, 1), p \in TextsOver({"s"}, 2),
           n \in TextsOver({"a", ":"}, MaxNativeLen) :
          bo = [mode |-> "encode", kind |-> k, provider |-> p, nativeID |-> n,
                id |-> <<>>, done |-> FALSE, out |-> ParseItemID(<<>>)]
     \/ \E id \in TextsOver({"a", ":"}, MaxIdLen) :
          bo = [mode |-> "decode", kind |-> <<>>, provider |-> <<>>,
                nativeID |-> <<>>, id |-> id, done |-> FALSE,
                out |-> ParseItemID(<<>>)]

\* ParseItemID(ItemID(kind, provider, nativeID))
CodecRoundTrip ==
  /\ bo.mode = "encode" /\ ~bo.done
  /\ bo' = [bo EXCEPT !.done = TRUE,
                      !.id = ItemID(bo.kind, bo.provider, bo.nativeID),
                      !.out = ParseItemID(ItemID(bo.kind, bo.provider, bo.nativeID))]
  /\ UNCHANGED <<supVars, manVars, netVars, extVars>>

\* ParseItemID of an arbitrary text
CodecParse ==
  /\ bo.mode = "decode" /\ ~bo.done
  /\ bo' = [bo EXCEPT !.done = TRUE, !.out = ParseItemID(bo.id)]
  /\ UNCHANGED <<supVars, manVars, netVars, extVars>>

CodecNext == CodecRoundTrip \/ CodecParse

SpecCodec == CodecInit /\ [][CodecNext]_vars

\* C31: decoding the encoding of a kind and a provider without ":" and of any
\* native id gives the three back; decoding fails exactly when the id has
\* fewer than three parts, and otherwise splits at the first two ":" only, so
\* that encoding the result gives the id back.
C31_CodecRoundTrip ==
  bo.done =>
    /\ bo.mode = "encode" =>
         /\ bo.out.err = <<>>
         /\ bo.out.kind = bo.kind /\ bo.out.provider = bo.provider
         /\ bo.out.nativeID = bo.nativeID
    /\ (bo.out.err # <<>>) <=> (Colons(bo.id) + 1 < 3)
    /\ bo.out.err = <<>> =>
         /\ Colons(bo.out.kind) = 0 /\ Colons(bo.out.provider) = 0
         /\ ItemID(bo.out.kind, bo.out.provider, bo.out.nativeID) = bo.id

\* kind "e", provider "ss" and the native id "a:a" have been encoded and
\* decoded
C31_Witness ==
  /\ bo.done /\ bo.mode = "encode"
  /\ bo.kind = <<"e">> /\ bo.provider = <<"s", "s">>
  /\ bo.nativeID = <<"a", ":", "a">>
  /\ bo.id = <<"e", ":", "s", "s", ":", "a", ":", "a">>
  /\ bo.out.err = <<>> /\ bo.out.nativeID = <<"a", ":", "a">>

(***************************************************************************)
(* Claims about the failure count and the children of a registered name.   *)
(***************************************************************************)
\* C35: the failure count of a registered process grows by exactly one on
\* every exit of its child that waitAndRestart handles, whatever ended the
\* child, and it never decreases in any step.
C35_FailuresCountEveryExit ==
  [][/\ \A r \in DOMAIN heap : heap'[r].failures >= heap[r].failures
     /\ \A c \in DOMAIN cmds :
          ExitHandled(c) =>
            heap'[cmds[c].rec].failures = heap[cmds[c].rec].failures + 1]_vars

\* the same while the supervisor's context is live
FailuresCountWhileLive ==
  [][/\ \A r \in DOMAIN heap : heap'[r].failures >= heap[r].failures
     /\ \A c \in DOMAIN cmds :
          (ExitHandled(c) /\ ~ctxDone) =>
            heap'[cmds[c].rec].failures = heap[cmds[c].rec].failures + 1]_vars

\* the children of the name n that are alive, of whichever record of n
LiveChildren(n) ==
  {c \in DOMAIN cmds : cmds[c].alive /\ heap[cmds[c].rec].Name = n}

\* C36: in every reachable state at most one child of a registered name is
\* alive.
C36_OneChildPerName ==
  \A n \in Names : Cardinality(LiveChildren(n)) <= 1

\* C37: once Stop or StopAll on a process has returned, no child of it is
\* spawned and it is not running until Start or Restart is called, also when
\* the process was waiting out a backoff at the time of the call.
C37_StoppedStaysStopped ==
  [][\A r \in DOMAIN heap :
       heap[r].stopped =>
         /\ \A c \in DOMAIN cmds' \ DOMAIN cmds : cmds'[c].rec # r
         /\ heap'[r].stopped => heap'[r].status # StatusRunning]_vars

(***************************************************************************)
(* The client under fair scheduling: the goroutines of the client take     *)
(* their steps, while the callers' contexts, the local Close and the       *)
(* daemon are free to do nothing.                                          *)
(***************************************************************************)
ClientFairness ==
  /\ \A k \in Calls : WF_vars(RequestWrite(k))
  /\ \A k \in Calls : WF_vars(RequestSelect(k))
  /\ \A k \in Calls : WF_vars(RequestReturn(k))
  /\ WF_vars(ReadScan)
  /\ WF_vars(ReadSend)
  /\ WF_vars(ReadEnd)

SpecClientLive == ClientInit /\ [][ClientNext]_vars /\ ClientFairness

\* C39: a Request call that is outstanding when the server has closed the
\* connection eventually returns, also when its context is never done and
\* Close is never called.
C39_RequestReturnsAfterServerClose ==
  \A k \in Calls :
    (client.calls[k].pc \in {"write", "wait"} /\ client.srvClosed)
      ~> (client.calls[k].pc = "done")

(***************************************************************************)
(* The terminal client (pkg/tui/model).  Texts are sequences of            *)
(* characters; the texts of the model are in lower case, on which          *)
(* strings.ToLower changes nothing.                                        *)
(***************************************************************************)
MaxSearch == 2

ModeNormal == "normal"
ModeSearch == "search"
ModeEditor == "editor"
ModeConfirmDelete == "confirm"
PaneList == 0
PaneDetail == 1
PaneLogs == 2

\* strings.Contains
Contains(s, q) ==
  \E i \in 0 .. Len(s) - Len(q) : SubSeq(s, i + 1, i + Len(q)) = q

Min(a, b) == IF a < b THEN a ELSE b
Max(a, b) == IF a > b THEN a ELSE b

\* the items the daemon may list, already sorted by score
TuiWeb == [Name |-> <<"w", "e", "b">>, Group |-> <<>>, Kind |-> <<"e", "x", "e", "c">>]
TuiDb == [Name |-> <<"d", "b">>, Group |-> <<"k", "v">>, Kind |-> <<"l", "o", "g">>]
TuiLists == {<<>>, <<TuiWeb>>, <<TuiWeb, TuiDb>>}

\* the keys of the model; those of one character are runes, which a focused
\* text input appends to its value
Keys == {"j", "k", "tab", "/", "esc", "enter", "w", "z", "r", "e", "a", "d",
         "y", "l", " ", "q"}
IsRune(key) == key \notin {"tab", "esc", "enter"}

\* App.filteredItems
filteredItems(a) ==
  IF a.search = <<>> THEN a.items
  ELSE SelectSeq(a.items, LAMBDA item : \/ Contains(item.Name, a.search)
                                        \/ Contains(item.Group, a.search)
                                        \/ Contains(item.Kind, a.search))

\* an index expression items[i] of Go: out of range, the program panics
InRange(list, i) == i >= 0 /\ i < Len(list)

\* App.selectedItem as the detail pane calls it after every Update: the
\* lookup happens when selectedIdx < len(items)
Rendered(a) ==
  IF a.selectedIdx < Len(filteredItems(a))
     /\ ~InRange(filteredItems(a), a.selectedIdx)
  THEN [a EXCEPT !.panicked = TRUE]
  ELSE a

\* New
NewApp ==
  [items |-> <<>>, selectedIdx |-> 0, mode |-> ModeNormal, search |-> <<>>,
   activePane |-> PaneList, connected |-> FALSE, editor |-> "",
   deleteTarget |-> <<>>, panicked |-> FALSE, quit |-> FALSE]

\* the j key: min(a.selectedIdx+1, len(a.filteredItems())-1)
StepDown(a) == Min(a.selectedIdx + 1, Len(filteredItems(a)) - 1)

\* doAction, and the e and d keys: the lookup of the selected item; wanted
\* tells whether the key's own guard lets the lookup happen
Lookup(a, wanted, then) ==
  IF ~wanted THEN a
  ELSE IF ~InRange(filteredItems(a), a.selectedIdx)
  THEN [a EXCEPT !.panicked = TRUE]
  ELSE then

\* App.handleKey
handleKey(a, key) ==
  IF a.mode = ModeSearch
  THEN CASE key = "esc" -> [a EXCEPT !.mode = ModeNormal, !.search = <<>>]
         [] key = "enter" -> [a EXCEPT !.mode = ModeNormal]
         [] OTHER -> IF IsRune(key) /\ Len(a.search) < MaxSearch
                     THEN [a EXCEPT !.search = Append(@, key)]
                     ELSE a
  ELSE IF a.mode = ModeEditor /\ a.editor # ""
  THEN CASE key = "esc" -> [a EXCEPT !.mode = ModeNormal, !.editor = ""]
         [] key = "enter" ->
              IF a.editor = "unnamed" THEN a
              ELSE [a EXCEPT !.mode = ModeNormal, !.editor = ""]
         [] OTHER -> IF IsRune(key) THEN [a EXCEPT !.editor = "named"] ELSE a
  ELSE IF a.mode = ModeConfirmDelete
  THEN [a EXCEPT !.mode = ModeNormal, !.deleteTarget = <<>>]
  ELSE CASE key = "q" -> [a EXCEPT !.quit = TRUE]
         [] key = "j" ->
              IF a.activePane = PaneList /\ Len(a.items) > 0
              THEN [a EXCEPT !.selectedIdx = StepDown(a)] ELSE a
         [] key = "k" ->
              IF a.activePane = PaneList /\ a.selectedIdx > 0
              THEN [a EXCEPT !.selectedIdx = @ - 1] ELSE a
         [] key = "tab" -> [a EXCEPT !.activePane = (@ + 1) % 3]
         [] key = "/" -> [a EXCEPT !.mode = ModeSearch]
         [] key = "r" ->
              Lookup(a, ~(~a.connected \/ Len(filteredItems(a)) = 0
                          \/ a.selectedIdx >= Len(filteredItems(a))), a)
         [] key = "l" -> [a EXCEPT !.activePane = PaneLogs]
         [] key = "e" ->
              Lookup(a, Len(a.items) > 0 /\ a.selectedIdx < Len(filteredItems(a)),
                     [a EXCEPT !.editor = "named", !.mode = ModeEditor])
         [] key = "a" -> [a EXCEPT !.editor = "unnamed", !.mode = ModeEditor]
         [] key = "d" ->
              Lookup(a, Len(a.items) > 0 /\ a.selectedIdx < Len(filteredItems(a)),
                     [a EXCEPT !.deleteTarget =
                                 filteredItems(a)[a.selectedIdx + 1].Name,
                               !.mode = ModeConfirmDelete])
         [] OTHER -> a

TuiInit ==
  /\ processes = Nil /\ heap = Nil /\ cmds = Nil /\ ctxDone = FALSE
  /\ threads = Nil
  /\ manifest = NoManifest /\ file = MissingFile /\ resp = NoResp
  /\ bo = Nil
  /\ items = Nil /\ poll = Nil /\ server = Nil /\ conns = Nil
  /\ client = Nil /\ logs = Nil /\ dm = Nil
  /\ reqCounter = 0
  /\ app = NewApp

TuiOnly == UNCHANGED <<supVars, manVars, bo, netVars, client, logs, dm>>
Running == ~app.panicked /\ ~app.quit

\* Update on a connectedMsg
Connected ==
  /\ Running
  /\ ~app.connected
  /\ app' = Rendered([app EXCEPT !.connected = TRUE])
  /\ TuiOnly

\* Update on an itemsMsg
ItemsMsg(list) ==
  /\ Running
  /\ app.connected
  /\ app' = Rendered([app EXCEPT
                        !.items = list,
                        !.selectedIdx = IF @ >= Len(list)
                                        THEN Max(0, Len(list) - 1) ELSE @])
  /\ TuiOnly

\* Update on a tea.KeyMsg
KeyMsg(key) ==
  /\ Running
  /\ app' = Rendered(handleKey(app, key))
  /\ app' # app
  /\ TuiOnly

TuiNext ==
  \/ Connected
  \/ \E list \in TuiLists : ItemsMsg(list)
  \/ \E key \in Keys : KeyMsg(key)

SpecTui == TuiInit /\ [][TuiNext]_vars

\* C40: after every sequence of key presses, search edits and item
\* refreshes the selection index is at least 0, and no lookup of the
\* selected item is out of range.
C40_SelectionInRange ==
  app.selectedIdx >= 0 /\ ~app.panicked

(***************************************************************************)
(* The daemon's goroutines side by side: handleUpdateManifest step by      *)
(* step under d.mu, the poll loop's tick, the list handlers, and the       *)
(* supervisor the handler calls.  manifest is the Manifest value that      *)
(* d.manifest points to: the handlers write it in place.                   *)
(***************************************************************************)
MaxDaemonTicks == 2
MaxUpdates == 1
MaxLists == 1

StatusUnknown == "unknown"

\* core.ItemID(core.KindExec, "supervisor", name)
ExecId(n) == IF n = "a" THEN "exec:supervisor:a" ELSE "exec:supervisor:b"

\* Supervisor.Status
SupStatus(n) ==
  IF processes[n] = 0 THEN StatusUnknown ELSE heap[processes[n]].status

\* exec.Provider.List: one item per entry of p.names
ExecList(names) ==
  Listed([i \in 1 .. Len(names) |->
            CoreItem(ExecId(names[i]), "exec", SupStatus(names[i]))])

\* sync.RWMutex: the writer, the readers
Unlocked == [w |-> "", r |-> {}]
CanRLock(mu) == mu.w = ""
CanLock(mu) == mu.w = "" /\ mu.r = {}

\* the handler reaches the write of m.Items: none of the early returns
Reaches(m, req) ==
  /\ m.loaded
  /\ \/ /\ req.RemoveItem # ""
        /\ req.RemoveItem \in DOMAIN m.Items
     \/ /\ req.RemoveItem = "" /\ req.AddItem.set
        /\ req.AddItem.Name \notin DOMAIN m.Items
        /\ patchToItem(req.AddItem.Item).err = ""
     \/ /\ req.RemoveItem = "" /\ ~req.AddItem.set /\ req.UpdateItem.set
        /\ req.UpdateItem.Name \in DOMAIN m.Items
        /\ patchToItem(req.UpdateItem.Item).err = ""

\* the manifest after the handler's write in place: delete(m.Items, name)
\* with the groups filtered, or m.Items[patch.Name] = item
Mutated(m, req) ==
  IF req.RemoveItem # ""
  THEN [m EXCEPT !.Items = DeleteItem(m.Items, req.RemoveItem),
                 !.Groups = [i \in 1 .. Len(m.Groups) |->
                               [m.Groups[i] EXCEPT
                                  !.Items = Filtered(@, req.RemoveItem)]]]
  ELSE LET patch == IF req.AddItem.set THEN req.AddItem ELSE req.UpdateItem
       IN [m EXCEPT !.Items = PutItem(m.Items, patch.Name,
                                      patchToItem(patch.Item).item)]

\* the manifest of the daemon at the start: one exec item, one rule
DaemonManifest ==
  [NoManifest EXCEPT
     !.loaded = TRUE, !.Version = 1, !.FilePath = ManifestPath,
     !.Items = PutItem(NoItems, "a", ExecItem("run", SrvDir, RestartNever)),
     !.Rules = <<[Match |-> [k \in {"kind"} |-> "exec"], Score |-> 20]>>]

\* the requests of the clients: an add that Validate rejects (unknown kind),
\* an add of an exec item, a removal, an update that Validate rejects
DaemonRequests ==
  {Request("", ItemPatch("b", Item("process"), FALSE), NoPatch),
   Request("", ItemPatch("b", ExecItem("run", SrvDir, RestartNever), FALSE), NoPatch),
   Request("a", NoPatch, NoPatch),
   Request("", NoPatch, ItemPatch("a", ExecItem("", SrvDir, ""), FALSE))}

IdleUpdate == [pc |-> "idle", req |-> Request("", NoPatch, NoPatch), m0 |-> NoManifest]
IdleList == [pc |-> "idle", out |-> NoTable, n |-> 0]
NoGet == [done |-> FALSE, id |-> "", found |-> FALSE, item |-> CoreItem("", "", "")]

\* main has loaded the manifest, added its exec item to the exec provider
\* and started it; the manifest is loaded in the daemon.  clean and tables
\* are history: the values of the manifest without a change that awaits
\* Validate, and the tables swapped in, each with the manifest its scores
\* were computed from.
DaemonInit ==
  /\ processes = [n \in Names |-> IF n = "a" THEN 1 ELSE 0]
  /\ heap = <<[NewProcess("a", "run", SrvDir, {}, RestartNever) EXCEPT
                 !.status = StatusRunning, !.pid = 1, !.cmd = 1]>>
  /\ cmds = <<NewCmd(1)>>
  /\ ctxDone = FALSE
  /\ threads = [t \in Threads |-> IdleThread]
  /\ manifest = DaemonManifest
  /\ file = SavedFile(DaemonManifest)
  /\ resp = NoResp
  /\ bo = Nil
  /\ items = NoTable
  /\ poll = [pc |-> "idle", cycle |-> 0, outs |-> <<>>, old |-> NoTable,
             sent |-> <<>>, new |-> NoTable, seen |-> NoManifest]
  /\ server = [clients |-> {}, bc |-> NoBroadcast]
  /\ conns = Nil
  /\ reqCounter = 0
  /\ client = Nil /\ logs = Nil /\ app = Nil
  /\ dm = [mu |-> Unlocked, upd |-> IdleUpdate, rd |-> IdleList, got |-> NoGet,
           names |-> <<"a">>, nupd |-> 0,
           clean |-> {DaemonManifest},
           tables |-> {[table |-> NoTable, m |-> NoManifest]}]

DaemonOnly == UNCHANGED <<supVars, bo, conns, client, logs, app>>

\* handleUpdateManifest from d.mu.Lock() to the write of m.Items, or to an
\* early return
UpdBegin(req) ==
  LET out == handleUpdateManifest(manifest, req, TRUE)
  IN /\ dm.upd.pc = "idle"
     /\ dm.nupd < MaxUpdates
     /\ CanLock(dm.mu)
     /\ IF Reaches(manifest, req)
        THEN /\ manifest' = Mutated(manifest, req)
             /\ resp' = resp
             /\ dm' = [dm EXCEPT
                  !.mu.w = "upd", !.nupd = @ + 1,
                  !.upd = [pc |-> IF req.RemoveItem # "" THEN "saving" ELSE "validate",
                           req |-> req, m0 |-> manifest],
                  !.clean = IF req.RemoveItem # ""
                            THEN @ \cup {Mutated(manifest, req)} ELSE @]
        ELSE /\ manifest' = manifest
             /\ resp' = Response("UpdateManifest", req, out.ok, out.errors)
             /\ dm' = [dm EXCEPT !.nupd = @ + 1]
     /\ UNCHANGED <<file, items, poll, server, reqCounter>>
     /\ DaemonOnly

\* applyAddItem, applyUpdateItem: manifest.Validate(m); errors undo the
\* write and return, otherwise manifest.Save is called
UpdValidate ==
  LET out == handleUpdateManifest(dm.upd.m0, dm.upd.req, TRUE)
  IN /\ dm.upd.pc = "validate"
     /\ IF Validate(manifest) # {}
        THEN /\ manifest' = out.m
             /\ resp' = Response("UpdateManifest", dm.upd.req, out.ok, out.errors)
             /\ dm' = [dm EXCEPT !.mu.w = "", !.upd = IdleUpdate]
        ELSE /\ dm' = [dm EXCEPT !.upd.pc = "saving", !.clean = @ \cup {manifest}]
             /\ UNCHANGED <<manifest, resp>>
     /\ UNCHANGED <<file, items, poll, server, reqCounter>>
     /\ DaemonOnly

\* manifest.Save returns: an error undoes the write and returns; otherwise
\* the handler goes on to its supervisor calls, or returns
UpdSave(saveOK, truncated) ==
  LET out == handleUpdateManifest(dm.upd.m0, dm.upd.req, saveOK)
  IN /\ dm.upd.pc = "saving"
     /\ ~Busy("d")
     /\ saveOK => ~truncated
     /\ manifest' = out.m
     /\ file' = IF saveOK THEN SavedFile(out.m)
                ELSE IF truncated THEN TruncatedFile ELSE file
     /\ IF out.calls = <<>>
        THEN /\ resp' = Response("UpdateManifest", dm.upd.req, out.ok, out.errors)
             /\ dm' = [dm EXCEPT !.mu.w = "", !.upd = IdleUpdate,
                                 !.clean = @ \cup {out.m}]
             /\ threads' = threads
        ELSE /\ resp' = resp
             /\ dm' = [dm EXCEPT !.upd.pc = "sup"]
             /\ threads' = [threads EXCEPT !["d"] =
                  [IdleThread EXCEPT !.call = "UpdateManifest", !.todo = out.calls]]
     /\ UNCHANGED <<processes, heap, cmds, ctxDone, bo, items, poll, server,
                    conns, reqCounter, client, logs, app>>

\* the supervisor calls have returned: the handler returns, d.mu is
\* unlocked
UpdReturn ==
  /\ dm.upd.pc = "sup"
  /\ ~Busy("d")
  /\ resp' = Response("UpdateManifest", dm.upd.req, TRUE, {})
  /\ dm' = [dm EXCEPT !.mu.w = "", !.upd = IdleUpdate]
  /\ UNCHANGED <<manifest, file, items, poll, server, reqCounter>>
  /\ DaemonOnly

\* tick: the providers are listed
TickList ==
  LET outs == <<ExecList(dm.names), Listed(<<ItemB>>)>>
  IN /\ poll.pc = "idle"
     /\ poll.cycle < MaxDaemonTicks
     /\ poll' = [poll EXCEPT !.pc = "listed", !.outs = outs,
                             !.new = Collect(NoTable, outs)]
     /\ UNCHANGED <<manVars, items, server, reqCounter, dm>>
     /\ DaemonOnly

\* tick: m := pl.daemon.Manifest(), the pointer read under d.mu.RLock
TickManifest ==
  /\ poll.pc = "listed"
  /\ CanRLock(dm.mu)
  /\ poll' = [poll EXCEPT !.pc = "got"]
  /\ UNCHANGED <<manVars, items, server, reqCounter, dm>>
  /\ DaemonOnly

\* tick: the scoring loop, which reads m.Items and m.Rules with no lock held
TickScore ==
  /\ poll.pc = "got"
  /\ poll' = [poll EXCEPT !.pc = "scored", !.new = Scored(poll.new, manifest),
                          !.seen = manifest]
  /\ UNCHANGED <<manVars, items, server, reqCounter, dm>>
  /\ DaemonOnly

\* tick: the swap under d.mu.Lock, the delta, the event handed to Broadcast
TickSwap ==
  LET delta == computeDelta(items, poll.new)
      evt == NewEvent("items.delta", delta, reqCounter + 1)
  IN /\ poll.pc = "scored"
     /\ CanLock(dm.mu)
     /\ items' = poll.new
     /\ dm' = [dm EXCEPT !.tables = @ \cup {[table |-> poll.new, m |-> poll.seen]}]
     /\ IF HasChanges(delta)
        THEN /\ reqCounter' = reqCounter + 1
             /\ poll' = [poll EXCEPT !.pc = "idle", !.cycle = @ + 1,
                                     !.old = items, !.sent = Append(@, evt)]
        ELSE /\ reqCounter' = reqCounter
             /\ poll' = [poll EXCEPT !.pc = "idle", !.cycle = @ + 1, !.old = items]
     /\ UNCHANGED <<manVars, server>>
     /\ DaemonOnly

\* handleListItems: d.mu.RLock(), the range over d.items begins (the map
\* that d.items holds now is the one the loop reads)
ListBegin ==
  /\ dm.rd.pc = "idle"
  /\ dm.rd.n < MaxLists
  /\ CanRLock(dm.mu)
  /\ dm' = [dm EXCEPT !.mu.r = @ \cup {"list"},
                      !.rd = [pc |-> "copy", out |-> items, n |-> dm.rd.n + 1]]
  /\ UNCHANGED <<manVars, items, poll, server, reqCounter>>
  /\ DaemonOnly

\* handleListItems: the copy is returned, d.mu.RUnlock()
ListEnd ==
  /\ dm.rd.pc = "copy"
  /\ dm' = [dm EXCEPT !.mu.r = @ \ {"list"}, !.rd.pc = "done"]
  /\ UNCHANGED <<manVars, items, poll, server, reqCounter>>
  /\ DaemonOnly

\* handleGetItem: the lookup under d.mu.RLock
GetItem(id) ==
  /\ ~dm.got.done
  /\ CanRLock(dm.mu)
  /\ dm' = [dm EXCEPT !.got =
       IF id \in DOMAIN items
       THEN [done |-> TRUE, id |-> id, found |-> TRUE, item |-> items[id]]
       ELSE [NoGet EXCEPT !.done = TRUE, !.id = id]]
  /\ UNCHANGED <<manVars, items, poll, server, reqCounter>>
  /\ DaemonOnly

DaemonNext ==
  \/ \E req \in DaemonRequests : UpdBegin(req)
  \/ UpdValidate
  \/ \E saveOK \in BOOLEAN, truncated \in BOOLEAN : UpdSave(saveOK, truncated)
  \/ UpdReturn
  \/ Continue("d")
  \/ \E ok \in BOOLEAN : StartSpawn("d", ok, MaxManCmds)
  \/ StopKill("d")
  \/ StopFinish("d")
  \/ \E c \in DOMAIN cmds : ChildExit(c)
  \/ \E c \in DOMAIN cmds, code \in {0, 1} : HandlerExit(c, code)
  \/ TickList
  \/ TickManifest
  \/ TickScore
  \/ TickSwap
  \/ ListBegin
  \/ ListEnd
  \/ GetItem(ExecId("a"))

SpecDaemon == DaemonInit /\ [][DaemonNext]_vars

\* C32: no reader of the manifest sees a change that has not passed
\* validation: every score in the item table is the score computed from a
\* manifest that holds no unvalidated add or update, and the manifest the
\* scorer has read is such a manifest.
C32_NoUnvalidatedRead ==
  /\ poll.pc = "scored" => poll.seen \in dm.clean
  /\ \A id \in DOMAIN items :
       \E m \in dm.clean : items[id].Score = computeScore(items[id], m)

\* C33: the daemon's lock is not held while the manifest file is written nor
\* while a process is spawned or stopped, and the supervisor's lock is not
\* held (StopAll holds it) while a stop waits for the child to exit.
C33_NoLockAcrossBlockingCall ==
  /\ ~(dm.mu.w = "upd" /\ dm.upd.pc = "saving")
  /\ ~(dm.mu.w = "upd" /\ threads["d"].pc \in {"spawn", "wait", "killed"})
  /\ \A t \in Threads :
       ~(threads[t].call = "StopAll" /\ threads[t].pc \in {"wait", "killed"})

\* the response of ListItems, the response of GetItem: served from one of
\* the tables swapped in, with the scores computed in its cycle
ListServed ==
  dm.rd.pc \in {"copy", "done"} =>
    \E h \in dm.tables :
      /\ dm.rd.out = h.table
      /\ \A id \in DOMAIN h.table :
           h.table[id].Score = computeScore(h.table[id], h.m)
GetServed ==
  dm.got.done =>
    \E h \in dm.tables :
      IF dm.got.found
      THEN /\ dm.got.id \in DOMAIN h.table
           /\ h.table[dm.got.id] = dm.got.item
           /\ dm.got.item.Score = computeScore(dm.got.item, h.m)
      ELSE dm.got.id \notin DOMAIN h.table

\* C34: every ListItems and GetItem response is the table of one complete
\* poll cycle or the empty table of the start, its items carry the score
\* computed in that cycle, and the table changes only in the swap of a tick.
C34_TableSwappedAtomically ==
  [][/\ ListServed'
     /\ GetServed'
     /\ items' # items => poll.pc = "scored" /\ poll'.pc = "idle"]_vars

\* a list handler holds the read lock over the table of the first cycle
\* while the second tick waits to swap
C34_Witness ==
  /\ dm.rd.pc = "copy"
  /\ dm.rd.out # NoTable
  /\ poll.pc = "scored"
  /\ poll.new # items

\* C38: the exec items a poll cycle lists are the items of the names
\* registered in the supervisor.
C38_TableMatchesRegistry ==
  [][(poll.pc = "idle" /\ poll'.pc = "listed") =>
       {id \in DOMAIN poll'.new : poll'.new[id].Kind = "exec"}
         = {ExecId(n) : n \in {x \in Names : processes[x] # 0}}]_vars

====
